---- MODULE Spec2Model ----
(***************************************************************************)
(* Trading control loop of trading_bot: the idempotent execution layer,    *)
(* the decisions table, the candle-close scheduler, the risk manager and   *)
(* the per-symbol strategy / risk / execute pipeline of the engine.        *)
(***************************************************************************)
EXTENDS Integers, Sequences, FiniteSets, TLC

(***************************************************************************)
(* Bounds of the model.                                                    *)
(***************************************************************************)
MaxAttempts == 2
MaxCalls == 2
MaxCandle == 2
MaxBar == 2
MaxPolls == 3
MaxDeals == 1
MaxStreak == 3
MaxTime == 2
\* Configurations applied from the UI during one run.
MaxApplies == 1

(***************************************************************************)
(* Vocabulary.                                                             *)
(***************************************************************************)
None == "None"

\* Python's None where the value is otherwise an integer (ids, magic numbers).
NoneInt == 0 - 1

\* Tickets of the positions the broker holds before the bot starts.
SeedIds == {1, 2}

Symbols == {"EURUSD", "GBPUSD"}

Candles == 1..MaxCandle

LONG == "long"

SHORT == "short"

FLAT == "flat"

Side == {LONG, SHORT, FLAT}

AccountTradeMode == {"DEMO", "REAL", "CONTEST", "UNKNOWN"}

DECISION_STATUS_NO_SIGNAL == "no-signal"

DECISION_STATUS_SKIPPED == "skipped"

DECISION_STATUS_RISK_BLOCKED == "risk-blocked"

DECISION_STATUS_OPENED == "opened"

DECISION_STATUS_CLOSED == "closed"

DECISION_STATUS_ERROR == "error"

StrategyNames == {"two_pole_momentum", "range_mean_reversion"}

Timeframe == "H1"

\* Outcome of one connector.place_order call: an OrderResult with
\* success=True ("done") or success=False ("failed"), or one of the three
\* error kinds of core/exceptions.py.
BrokerOutcomes == {"done", "failed", "retryable", "disconnected", "fatal"}

\* connector.account_info(): None, or an AccountInfo carrying a trade mode.
AccountInfos == {None} \cup AccountTradeMode

BotMagic == 26012026

ForeignMagic == BotMagic + 1

VARIABLES
    cfg,          \* AppConfig fields the modelled code reads
    decisions,    \* rows of the decisions table, in insertion order
    orders,       \* log of connector.place_order invocations
    positions,    \* broker-side open positions
    lastInsert,   \* observation of the latest DecisionRepo.try_insert
    lastCall,     \* observation of the latest TradeExecutor call
    ncalls,       \* number of API calls made so far (bounds the run)
    sched,        \* CandleCloseScheduler and what its polls returned
    risk,         \* RiskManager.state (RiskState)
    riskObs,      \* observation of the latest RiskManager call
    clock,        \* datetime.now(utc), in minutes
    eng,          \* BotEngine: manual pause flag and the cycle in progress
    engObs,       \* observation of the latest symbol the engine processed
    store,        \* the heartbeats, trades and errors tables of the database
    hist,         \* history of the run: what the properties need to remember
    shared,       \* the engine snapshot, its lock and the two threads using it
    notifier,     \* TelegramNotifier: its Throttle and what it delivered
    pure          \* a call of a pure function: its arguments and its result

vars == <<cfg, decisions, orders, positions, lastInsert, lastCall, ncalls,
          sched, risk, riskObs, clock, eng, engObs, store, hist,
          shared, notifier, pure>>

execVars == <<cfg, decisions, orders, positions, lastInsert, lastCall, ncalls>>

schedVars == <<sched>>

riskVars == <<risk, riskObs, clock>>

engVars == <<eng, engObs, store, hist>>

sideVars == <<shared, notifier, pure>>

(***************************************************************************)
(* core/config.py: the fields of AppConfig the modelled code reads, with   *)
(* their defaults.  Percentages are whole percents, durations minutes.     *)
(***************************************************************************)
DefaultMaxAttempts == 3

DefaultMaxDailyLossPct == 2

DefaultMaxDrawdownPct == 6

DefaultMaxOpenPositionsTotal == 5

DefaultMaxOpenPositionsPerSymbol == 1

DefaultCooloffLosses == 3

DefaultCooloffMinutes == 120

DefaultAdxTrending == 22

DefaultAdxRanging == 18

\* execution.retries.backoff_seconds, in seconds.
DefaultBackoffSeconds == <<1, 3, 7>>

DefaultConfig ==
    [trading_enabled |-> FALSE, close_on_exit_signal |-> TRUE,
     magic_number |-> BotMagic, max_attempts |-> DefaultMaxAttempts,
     backoff_seconds |-> DefaultBackoffSeconds,
     max_daily_loss_pct |-> DefaultMaxDailyLossPct,
     max_drawdown_pct |-> DefaultMaxDrawdownPct,
     max_open_positions_total |-> DefaultMaxOpenPositionsTotal,
     max_open_positions_per_symbol |-> DefaultMaxOpenPositionsPerSymbol,
     cooloff_enabled |-> TRUE, cooloff_losses |-> DefaultCooloffLosses,
     cooloff_minutes |-> DefaultCooloffMinutes,
     strategy_mode |-> "manual", manual_active |-> "two_pole_momentum",
     adx_trending |-> DefaultAdxTrending, adx_ranging |-> DefaultAdxRanging]

(***************************************************************************)
(* core/utils.py, execution/idempotency.py                                 *)
(***************************************************************************)
iso_utc(t) == "T" \o ToString(t)

\* SHA-256 is modelled as an injective tagging of its input text.
sha256_hex(text) == "sha256(" \o text \o ")"

\* The key computed from the first four fields only.
make_idempotency_key_sideless(symbol, timeframe, candle_close_time_utc, strategy, side) ==
    sha256_hex(symbol \o "|" \o timeframe \o "|" \o candle_close_time_utc
               \o "|" \o strategy)

make_idempotency_key(symbol, timeframe, candle_close_time_utc, strategy, side) ==
    sha256_hex(symbol \o "|" \o timeframe \o "|" \o candle_close_time_utc
               \o "|" \o strategy \o "|" \o side)

(***************************************************************************)
(* persistence/repos.py, persistence/migrations.py                         *)
(***************************************************************************)
KeyPresent(rows, key) == \E i \in 1..Len(rows) : rows[i].idempotency_key = key

\* INSERT without the UNIQUE constraint on idempotency_key.
try_insert_no_unique(rows, row) ==
    [rows |-> Append(rows, row), inserted |-> TRUE]

\* INSERT OR IGNORE that reports success whether or not a row was written.
try_insert_always_true(rows, row) ==
    IF KeyPresent(rows, row.idempotency_key)
    THEN [rows |-> rows, inserted |-> TRUE]
    ELSE [rows |-> Append(rows, row), inserted |-> TRUE]

\* DecisionRepo.try_insert: the UNIQUE constraint of decisions.idempotency_key
\* raises sqlite3.IntegrityError, which is turned into False.
try_insert(rows, row) ==
    IF KeyPresent(rows, row.idempotency_key)
    THEN [rows |-> rows, inserted |-> FALSE]
    ELSE [rows |-> Append(rows, row), inserted |-> TRUE]

\* What a caller of try_insert observes: the key, whether a row with that key
\* existed before, the returned flag, and whether the table was left as it was.
InsertObs(rows, row, ins) ==
    [key |-> row.idempotency_key, present |-> KeyPresent(rows, row.idempotency_key),
     inserted |-> ins.inserted, unchanged |-> ins.rows = rows]

DecisionRow(key, symbol, candle, strategy, status, by) ==
    [idempotency_key |-> key, symbol |-> symbol, candle |-> candle,
     strategy |-> strategy, status |-> status, by |-> by]

\* UPDATE decisions SET status=? WHERE idempotency_key=?
UpdateStatus(rows, key, status) ==
    [i \in 1..Len(rows) |->
        IF rows[i].idempotency_key = key
        THEN [rows[i] EXCEPT !.status = status]
        ELSE rows[i]]

\* _update_decision that never writes the status.
update_decision_noop(rows, key, status, updateOk) == rows

\* TradeExecutor._update_decision: a failing UPDATE is logged and swallowed.
update_decision(rows, key, status, updateOk) ==
    IF updateOk THEN UpdateStatus(rows, key, status) ELSE rows

(***************************************************************************)
(* execution/retry.py                                                      *)
(***************************************************************************)
Retryable(o) == o \in {"retryable", "disconnected"}

\* `backoff_seconds[min(attempt - 1, len(backoff_seconds) - 1)] if
\* backoff_seconds else 1.0`, in seconds; sequences are indexed from 1.
Delay(backoff_seconds, attempt) ==
    IF backoff_seconds # <<>>
    THEN backoff_seconds[(IF attempt - 1 < Len(backoff_seconds) - 1
                          THEN attempt - 1 ELSE Len(backoff_seconds) - 1) + 1]
    ELSE 1

RECURSIVE RetryLoop(_, _, _, _)
\* The for-loop of call_with_retries from `attempt` on; outcomes[k] is what
\* the k-th invocation of fn does.  calls counts the invocations, sleeps
\* lists the arguments of time.sleep in order, error is the exception that
\* leaves call_with_retries (None when it returns).  When the loop body
\* never runs, `assert last_exc is not None` fails.
RetryLoop(outcomes, attempt, max_attempts, backoff_seconds) ==
    IF attempt > max_attempts
    THEN [calls |-> attempt - 1, result |-> "raised", sleeps |-> <<>>,
          error |-> "AssertionError"]
    ELSE IF ~Retryable(outcomes[attempt])
         THEN [calls |-> attempt,
               result |-> IF outcomes[attempt] = "fatal" THEN "raised"
                          ELSE outcomes[attempt],
               sleeps |-> <<>>,
               error |-> IF outcomes[attempt] = "fatal" THEN "fatal" ELSE None]
         ELSE IF attempt >= max_attempts
              THEN [calls |-> attempt, result |-> "raised", sleeps |-> <<>>,
                    error |-> outcomes[attempt]]
              ELSE LET rest == RetryLoop(outcomes, attempt + 1, max_attempts,
                                         backoff_seconds)
                   IN  [rest EXCEPT !.sleeps = <<Delay(backoff_seconds, attempt)>> \o @]

\* call_with_retries that gives up after the first failed attempt.
call_without_retries(outcomes, max_attempts, backoff_seconds) ==
    RetryLoop(outcomes, 1, IF max_attempts > 1 THEN 1 ELSE max_attempts,
              backoff_seconds)

call_with_retries(outcomes, max_attempts, backoff_seconds) ==
    RetryLoop(outcomes, 1, max_attempts, backoff_seconds)

(***************************************************************************)
(* execution/executor.py                                                   *)
(***************************************************************************)
\* `ai and ai.trade_mode not in {DEMO, CONTEST}`: None is falsy, so the gate
\* only refuses an account info that is present.
PaperGateRefuses(ai) == ai # None /\ ai \notin {"DEMO", "CONTEST"}

Report(action, success, reason, placed) ==
    [action |-> action, success |-> success, reason |-> reason, placed |-> placed]

\* The place_order invocations of one executor call, appended to the log.
OrderLog(log, req, outcomes, calls) ==
    log \o [k \in 1..calls |-> [req EXCEPT !.attempt = k]]

OrderRequest(c, action, key, symbol, side, position_id, position_magic, call) ==
    [action |-> action, idempotency_key |-> key, symbol |-> symbol, side |-> side,
     magic |-> c.magic_number, position_id |-> position_id,
     position_magic |-> position_magic, call |-> call, attempt |-> 0]

\* The broker numbers a new position after the order that opened it.
NewTicket(log) == Cardinality(SeedIds) + Len(log)

\* The broker's book after a place_order that returned success.
BrokerFill(pos, req, id) ==
    IF req.position_id = NoneInt
    THEN pos \cup {[position_id |-> id, symbol |-> req.symbol, side |-> req.side,
                    magic |-> req.magic]}
    ELSE {p \in pos : p.position_id # req.position_id}

\* The connector methods one executor call invoked so far, with n more
\* invocations of place_order.
Placed(broker, n) == broker \o [k \in 1..n |-> "place_order"]

\* What list_positions answers to the verification: the position looked for
\* is listed, it is not, or the call raises.
Verifications == {"listed", "not listed", "raises"}

\* A verification that takes a failed check for a failed trade.
verify_trade_strict(w, action, verify) ==
    LET warned == \/ action = "open" /\ verify = "not listed"
                  \/ action = "close" /\ verify = "listed"
    IN  [w EXCEPT !.broker = Append(@, "list_positions"), !.warned = warned,
                  !.report = IF warned
                             THEN Report(action, FALSE, "verification failed", @.placed)
                             ELSE @]

\* TradeExecutor._verify_open / _verify_closed: one list_positions call; a
\* position not found after an open, or still present after a close, is
\* logged as a warning, an exception as a debug line.
verify_trade(w, action, verify) ==
    [w EXCEPT !.broker = Append(@, "list_positions"),
              !.warned = \/ action = "open" /\ verify = "not listed"
                         \/ action = "close" /\ verify = "listed"]

\* Steps 4..6 shared by open_trade and close_trade: insert the decision as
\* skipped, send through call_with_retries, store the terminal status and,
\* after a success, verify.
Dispatch(w, c, req, row, inp, okStatus, okReason) ==
    LET ins == try_insert(w.decisions, row) IN
    IF ~ins.inserted
    THEN [w EXCEPT !.report = Report(req.action, FALSE, "duplicate idempotency key", 0),
                   !.insert = InsertObs(w.decisions, row, ins)]
    ELSE
      LET r == call_with_retries(inp.outcomes, c.max_attempts, c.backoff_seconds)
          log == OrderLog(w.orders, req, inp.outcomes, r.calls)
          seen == InsertObs(w.decisions, row, ins)
      IN  IF r.result = "raised"
          THEN [w EXCEPT !.decisions = update_decision(ins.rows, row.idempotency_key,
                                           DECISION_STATUS_ERROR, inp.updateOk),
                         !.orders = log, !.insert = seen,
                         !.broker = Placed(@, r.calls),
                         !.report = Report(req.action, FALSE, "raised", r.calls)]
          ELSE IF r.result = "failed"
          THEN [w EXCEPT !.decisions = update_decision(ins.rows, row.idempotency_key,
                                           DECISION_STATUS_ERROR, inp.updateOk),
                         !.orders = log, !.insert = seen,
                         !.broker = Placed(@, r.calls),
                         !.report = Report(req.action, FALSE, "retcode", r.calls)]
          ELSE verify_trade(
                   [w EXCEPT !.decisions = update_decision(ins.rows,
                                               row.idempotency_key, okStatus,
                                               inp.updateOk),
                             !.orders = log, !.insert = seen,
                             !.broker = Placed(@, r.calls),
                             !.positions = BrokerFill(w.positions, req, NewTicket(log)),
                             !.report = Report(req.action, TRUE, okReason, r.calls)],
                   req.action, inp.verify)

\* self.connector.account_info() of the paper gate.
AccountAsked(w) == [w EXCEPT !.broker = Append(@, "account_info")]

\* open_trade without the trading-enabled switch.
open_trade_unswitched(w, c, a, inp) ==
    IF PaperGateRefuses(inp.ai)
    THEN [AccountAsked(w) EXCEPT !.report = Report("open", FALSE, "paper-only gate", 0)]
    ELSE Dispatch(AccountAsked(w), c,
                  OrderRequest(c, "open", a.key, a.symbol, a.side, NoneInt, NoneInt, a.call),
                  DecisionRow(a.key, a.symbol, a.candle, a.strategy,
                              DECISION_STATUS_SKIPPED, "executor"),
                  inp, DECISION_STATUS_OPENED, "opened")

\* TradeExecutor.open_trade.  w is the world the call acts on (decisions
\* table, order log, broker book); a is the call's arguments; inp is what the
\* collaborators answer during the call.
open_trade(w, c, a, inp) ==
    IF ~c.trading_enabled
    THEN [w EXCEPT !.report = Report("open", FALSE, "trading disabled", 0)]
    ELSE IF PaperGateRefuses(inp.ai)
    THEN [AccountAsked(w) EXCEPT !.report = Report("open", FALSE, "paper-only gate", 0)]
    ELSE Dispatch(AccountAsked(w), c,
                  OrderRequest(c, "open", a.key, a.symbol, a.side, NoneInt, NoneInt, a.call),
                  DecisionRow(a.key, a.symbol, a.candle, a.strategy,
                              DECISION_STATUS_SKIPPED, "executor"),
                  inp, DECISION_STATUS_OPENED, "opened")

\* TradeExecutor.close_trade.
close_trade(w, c, a, inp) ==
    IF ~c.trading_enabled
    THEN [w EXCEPT !.report = Report("close", FALSE, "trading disabled", 0)]
    ELSE IF PaperGateRefuses(inp.ai)
    THEN [AccountAsked(w) EXCEPT !.report = Report("close", FALSE, "paper-only gate", 0)]
    ELSE Dispatch(AccountAsked(w), c,
                  OrderRequest(c, "close", a.key, a.symbol, a.side, a.position_id,
                               a.position_magic, a.call),
                  DecisionRow(a.key, a.symbol, a.candle, a.strategy,
                              DECISION_STATUS_SKIPPED, "executor"),
                  inp, DECISION_STATUS_CLOSED, "closed")

(***************************************************************************)
(* core/timeframes.py, engine/scheduler.py                                 *)
(***************************************************************************)
timeframe_seconds(code) ==
    CASE code = "M1" -> 60
      [] code = "M5" -> 5 * 60
      [] code = "M15" -> 15 * 60
      [] code = "M30" -> 30 * 60
      [] code = "H1" -> 60 * 60
      [] code = "H4" -> 4 * 60 * 60
      [] code = "D1" -> 24 * 60 * 60

\* Bar open times (epoch seconds) the broker may report for the anchor symbol.
BarTimes == {k * timeframe_seconds(Timeframe) : k \in 0..MaxBar}

\* connector.get_candles(anchor, timeframe, 3): None, or a frame of at most
\* three bars in whatever order and with whatever times the broker sent.
NoFrame == [none |-> TRUE, time_utc |-> <<>>]

Frames ==
    {NoFrame} \cup
    {[none |-> FALSE, time_utc |-> t] : t \in UNION {[1..n -> BarTimes] : n \in 0..3}}

\* poll that also returns a close time equal to the last returned one.
poll_non_strict(last, df) ==
    IF df.none \/ Len(df.time_utc) < 3
    THEN [last |-> last, result |-> NoneInt]
    ELSE LET close_time == df.time_utc[Len(df.time_utc) - 1] + timeframe_seconds(Timeframe)
         IN  IF last = NoneInt \/ close_time >= last
             THEN [last |-> close_time, result |-> close_time]
             ELSE [last |-> last, result |-> NoneInt]

\* CandleCloseScheduler.poll: `last` is last_candle_close_time_utc before the
\* call; the result is the returned close time, NoneInt for None.
poll(last, df) ==
    IF df.none \/ Len(df.time_utc) = 0 \/ Len(df.time_utc) < 3
    THEN [last |-> last, result |-> NoneInt]
    ELSE LET open_time == df.time_utc[Len(df.time_utc) - 1]
             close_time == open_time + timeframe_seconds(Timeframe)
         IN  IF last = NoneInt \/ close_time > last
             THEN [last |-> close_time, result |-> close_time]
             ELSE [last |-> last, result |-> NoneInt]

\* A new scheduler: nothing returned yet.
Sched0 == [last |-> NoneInt, result |-> NoneInt, df |-> NoFrame,
           returned |-> <<>>, npolls |-> 0]

IdleSched == sched = Sched0

(***************************************************************************)
(* risk/models.py, risk/limits.py, risk/risk_manager.py                    *)
(***************************************************************************)
RiskState0 ==
    [paused |-> FALSE, pause_reason |-> None, cooloff_until_utc |-> NoneInt,
     loss_streak |-> 0, daily_date |-> None, daily_start_equity |-> NoneInt,
     peak_equity |-> NoneInt]

\* Python truthiness of an optional number: neither None nor zero.
Truthy(x) == x # NoneInt /\ x # 0

\* The positions count_positions does not skip.
Counted(ps, magic) ==
    {p \in ps : ~(magic # NoneInt /\ p.magic # NoneInt /\ p.magic # magic)}

count_positions(ps, magic) ==
    [total |-> Cardinality(Counted(ps, magic)),
     per_symbol |-> [s \in Symbols |->
                        Cardinality({p \in Counted(ps, magic) : p.symbol = s})]]

\* A ratio num/den, or None.
NoPct == [none |-> TRUE, num |-> 0, den |-> 1]

Pct(num, den) == [none |-> FALSE, num |-> num, den |-> den]

drawdown_pct(peak_equity, equity) ==
    IF peak_equity <= 0 THEN Pct(0, 1)
    ELSE Pct(IF peak_equity - equity > 0 THEN peak_equity - equity ELSE 0, peak_equity)

daily_loss_pct(daily_start_equity, equity) ==
    IF daily_start_equity <= 0 THEN Pct(0, 1)
    ELSE Pct(IF daily_start_equity - equity > 0 THEN daily_start_equity - equity ELSE 0,
             daily_start_equity)

\* `x is not None and x >= limit`, the limit being a whole percent.
PctAtLeast(f, pct) == ~f.none /\ f.num * 100 >= pct * f.den

Pause(paused, reason) == [paused |-> paused, reason |-> reason]

\* A pause that, once set, is kept by later calls.
PauseGatesLatched(s, c, dl, dd, now) ==
    IF s.paused THEN Pause(TRUE, s.pause_reason)
    ELSE IF \/ PctAtLeast(dl, c.max_daily_loss_pct)
            \/ PctAtLeast(dd, c.max_drawdown_pct)
            \/ (s.cooloff_until_utc # NoneInt /\ now < s.cooloff_until_utc)
         THEN Pause(TRUE, "risk paused")
         ELSE Pause(FALSE, None)

\* The three gates of update_equity_state, each overriding the reason of the
\* one before; `paused` starts from False in every call.
PauseGates(s, c, dl, dd, now) ==
    LET p0 == Pause(FALSE, None)
        p1 == IF PctAtLeast(dl, c.max_daily_loss_pct)
              THEN Pause(TRUE, "max daily loss breached") ELSE p0
        p2 == IF PctAtLeast(dd, c.max_drawdown_pct)
              THEN Pause(TRUE, "max drawdown breached") ELSE p1
    IN  IF s.cooloff_until_utc # NoneInt /\ now < s.cooloff_until_utc
        THEN Pause(TRUE, "cooloff") ELSE p2

\* update_equity_state whose peak follows every positive equity, up or down.
update_equity_state_peak_follows(st, c, equity, now_local_date, now) ==
    LET s1 == IF st.daily_date # now_local_date
              THEN [st EXCEPT !.daily_date = now_local_date,
                              !.daily_start_equity =
                                  IF equity # NoneInt /\ equity > 0 THEN equity ELSE @,
                              !.loss_streak = 0,
                              !.cooloff_until_utc = NoneInt]
              ELSE st
        s2 == IF equity # NoneInt /\ equity > 0
              THEN [s1 EXCEPT !.peak_equity = equity]
              ELSE s1
        dd == IF equity # NoneInt /\ Truthy(s2.peak_equity)
              THEN drawdown_pct(s2.peak_equity, equity) ELSE NoPct
        dl == IF equity # NoneInt /\ Truthy(s2.daily_start_equity)
              THEN daily_loss_pct(s2.daily_start_equity, equity) ELSE NoPct
        p  == PauseGates(s2, c, dl, dd, now)
    IN  [state |-> [s2 EXCEPT !.paused = p.paused, !.pause_reason = p.reason],
         dd |-> dd, dl |-> dl,
         assigned |-> (st.daily_date # now_local_date /\ equity # NoneInt /\ equity > 0)]

\* RiskManager.update_equity_state; equity is NoneInt when the account or its
\* equity is None, `now` is datetime.now(utc) in minutes.
update_equity_state(st, c, equity, now_local_date, now) ==
    LET s1 == IF st.daily_date # now_local_date
              THEN [st EXCEPT !.daily_date = now_local_date,
                              !.daily_start_equity =
                                  IF equity # NoneInt /\ equity > 0 THEN equity ELSE @,
                              !.loss_streak = 0,
                              !.cooloff_until_utc = NoneInt]
              ELSE st
        s2 == IF /\ equity # NoneInt /\ equity > 0
                 /\ (s1.peak_equity = NoneInt \/ equity > s1.peak_equity)
              THEN [s1 EXCEPT !.peak_equity = equity]
              ELSE s1
        dd == IF equity # NoneInt /\ Truthy(s2.peak_equity)
              THEN drawdown_pct(s2.peak_equity, equity) ELSE NoPct
        dl == IF equity # NoneInt /\ Truthy(s2.daily_start_equity)
              THEN daily_loss_pct(s2.daily_start_equity, equity) ELSE NoPct
        p  == PauseGates(s2, c, dl, dd, now)
    IN  [state |-> [s2 EXCEPT !.paused = p.paused, !.pause_reason = p.reason],
         dd |-> dd, dl |-> dl,
         assigned |-> (st.daily_date # now_local_date /\ equity # NoneInt /\ equity > 0)]

\* `float(d.profit or 0.0)`: an optional number is <<>> or <<x>>.
OrZero(opt) == IF opt = <<>> THEN 0 ELSE opt[1]

\* One iteration of the loop of on_new_deals.
OnDeal(st, c, d, magic_number, now) ==
    IF d.magic # NoneInt /\ d.magic # magic_number THEN st
    ELSE IF d.entry # "OUT" THEN st
    ELSE LET streak == IF OrZero(d.profit) < 0 THEN st.loss_streak + 1 ELSE 0
         IN  IF c.cooloff_enabled /\ streak >= c.cooloff_losses
             THEN [st EXCEPT !.loss_streak = streak,
                             !.cooloff_until_utc = now + c.cooloff_minutes]
             ELSE [st EXCEPT !.loss_streak = streak]

RECURSIVE on_new_deals(_, _, _, _, _)
\* RiskManager.on_new_deals
on_new_deals(st, c, deals, magic_number, now) ==
    IF deals = <<>> THEN st
    ELSE on_new_deals(OnDeal(st, c, Head(deals), magic_number, now), c,
                      Tail(deals), magic_number, now)

RiskDecision(allowed, reason) == [allowed |-> allowed, reason |-> reason]

\* What lines 160-193 of check_entry conclude from the symbol's point, the
\* SL/TP computation and the position sizing.
SizingOutcomes ==
    {"ok", "symbol point missing", "failed to compute SL/TP", "sizing blocked"}

\* check_entry without the two position caps.
check_entry_no_caps(st, c, symbol, side, ps, sizing) ==
    IF side \notin {LONG, SHORT} THEN RiskDecision(FALSE, "side is not entry")
    ELSE IF st.paused
    THEN RiskDecision(FALSE, IF st.pause_reason # None THEN st.pause_reason
                             ELSE "risk paused")
    ELSE RiskDecision(sizing = "ok", sizing)

\* RiskManager.check_entry
check_entry(st, c, symbol, side, ps, sizing) ==
    IF side \notin {LONG, SHORT} THEN RiskDecision(FALSE, "side is not entry")
    ELSE IF st.paused
    THEN RiskDecision(FALSE, IF st.pause_reason # None THEN st.pause_reason
                             ELSE "risk paused")
    ELSE LET counts == count_positions(ps, c.magic_number) IN
         IF counts.total >= c.max_open_positions_total
         THEN RiskDecision(FALSE, "max open positions reached")
         ELSE IF counts.per_symbol[symbol] >= c.max_open_positions_per_symbol
         THEN RiskDecision(FALSE, "max positions for symbol reached")
         ELSE IF sizing # "ok" THEN RiskDecision(FALSE, sizing)
         ELSE RiskDecision(TRUE, "ok")

NoRiskObs ==
    [kind |-> None, equity |-> NoneInt, now |-> 0, same_date |-> FALSE,
     paused_before |-> FALSE,
     symbol |-> None, side |-> None, positions |-> {}, decision |-> RiskDecision(FALSE, None),
     foreign |-> FALSE, before |-> RiskState0, returned |-> 0, fresh |-> 0]

IdleRisk == risk = RiskState0 /\ riskObs = NoRiskObs /\ clock = 0

(***************************************************************************)
(* strategies/: the selector and the two registered strategies.  A feature *)
(* that is None is NoFeature; the strategies read only the sign of         *)
(* tp_cross and ema50_slope and the level of rsi14 and adx14.              *)
(***************************************************************************)
\* features.get(name) returns None: no crossover, slope or level has this
\* value.
NoFeature == 0 - 1000

Position(id, symbol, side, magic) ==
    [position_id |-> id, symbol |-> symbol, side |-> side, magic |-> magic]

\* ctx.current_position is None
NoPosition == Position(NoneInt, None, None, NoneInt)

Features(adx14, tp_cross, ema50_slope, rsi14) ==
    [adx14 |-> adx14, tp_cross |-> tp_cross, ema50_slope |-> ema50_slope,
     rsi14 |-> rsi14]

\* `features.get(name) or 0`
OrZeroFeature(x) == IF x = NoFeature THEN 0 ELSE x

\* StrategySelector.select: the name of the selected strategy, or None.
select(c, f) ==
    IF c.strategy_mode = "manual" THEN c.manual_active
    ELSE IF OrZeroFeature(f.adx14) >= c.adx_trending THEN "two_pole_momentum"
    ELSE IF OrZeroFeature(f.adx14) <= c.adx_ranging THEN "range_mean_reversion"
    ELSE None

\* strategies/base.py Signal: the side and whether the tags hold "exit".
Signal(side, exit) == [side |-> side, exit |-> exit]

\* The entries of TwoPoleMomentumStrategy.generate_signal alone, whatever
\* the position.
two_pole_momentum_entries(f, pos) ==
    LET cross == OrZeroFeature(f.tp_cross)
        slope == OrZeroFeature(f.ema50_slope)
    IN  IF cross > 0 /\ slope > 0 THEN Signal(LONG, FALSE)
        ELSE IF cross < 0 /\ slope < 0 THEN Signal(SHORT, FALSE)
        ELSE Signal(FLAT, FALSE)

\* TwoPoleMomentumStrategy.generate_signal
two_pole_momentum(f, pos) ==
    LET cross == OrZeroFeature(f.tp_cross)
        slope == OrZeroFeature(f.ema50_slope)
    IN  IF pos # NoPosition
        THEN IF pos.side = LONG /\ cross < 0 THEN Signal(FLAT, TRUE)
             ELSE IF pos.side = SHORT /\ cross > 0 THEN Signal(FLAT, TRUE)
             ELSE Signal(FLAT, FALSE)
        ELSE IF cross > 0 /\ slope > 0 THEN Signal(LONG, FALSE)
        ELSE IF cross < 0 /\ slope < 0 THEN Signal(SHORT, FALSE)
        ELSE Signal(FLAT, FALSE)

\* RangeMeanReversionStrategy.generate_signal
range_mean_reversion(f, pos) ==
    IF f.rsi14 = NoFeature THEN Signal(FLAT, FALSE)
    ELSE IF pos # NoPosition
    THEN IF pos.side = LONG /\ f.rsi14 >= 50 THEN Signal(FLAT, TRUE)
         ELSE IF pos.side = SHORT /\ f.rsi14 <= 50 THEN Signal(FLAT, TRUE)
         ELSE Signal(FLAT, FALSE)
    ELSE IF f.rsi14 <= 30 THEN Signal(LONG, FALSE)
    ELSE IF f.rsi14 >= 70 THEN Signal(SHORT, FALSE)
    ELSE Signal(FLAT, FALSE)

\* selection.strategy.generate_signal
generate_signal(name, f, pos) ==
    IF name = "two_pole_momentum" THEN two_pole_momentum(f, pos)
    ELSE range_mean_reversion(f, pos)

(***************************************************************************)
(* connectors/mt5_connector.py list_positions; engine/bot_engine.py        *)
(***************************************************************************)
\* MT5Connector.list_positions: when positions_get returns None the method
\* returns the empty list, otherwise the broker's book.
list_positions(book, answered) == IF answered THEN book ELSE {}

\* The positions pos_by_symbol keeps: only a magic that is present and
\* differs from the configured one is skipped.
Owned(view, magic) == {p \in view : ~(p.magic # NoneInt /\ p.magic # magic)}

\* pos_by_symbol.get(sym): the dict keeps the last owned position of the
\* symbol in the order of the list, which the terminal sorts by ticket.
pos_by_symbol(view, magic, sym) ==
    LET mine == {p \in Owned(view, magic) : p.symbol = sym} IN
    IF mine = {} THEN NoPosition
    ELSE CHOOSE p \in mine : \A q \in mine : q.position_id <= p.position_id

\* close_side = Side.SHORT if pos.side == Side.LONG else Side.LONG
CloseSide(pos) == IF pos.side = LONG THEN SHORT ELSE LONG

\* _sync_deals keeps this many minutes of overlap between two queries.
SyncOverlapMinutes == 5

\* _connect_or_wait: the first query reaches back timedelta(hours=6).
SyncLookbackMinutes == 6 * 60

\* cycle numbers the cycles started, in place of the random cycle_id;
\* errors is the deque _errors, the latest first.  deals_sync_from is
\* _deals_sync_from_utc in minutes, set by _connect_or_wait at clock 0.
Engine0 ==
    [manual_paused |-> FALSE, pc |-> "idle", candle |-> 0, todo |-> <<>>,
     view |-> {}, cycle |-> 0, errors |-> <<>>,
     deals_sync_from |-> 0 - SyncLookbackMinutes]

\* Nothing processed yet.
NoEngObs ==
    [symbol |-> None, candle |-> 0, strategy |-> None, signal |-> Signal(None, FALSE),
     held |-> NoPosition, manual_paused |-> FALSE, risk_paused |-> FALSE,
     placed |-> 0, entry |-> RiskDecision(FALSE, None), raised |-> FALSE,
     stored |-> FALSE]

\* heartbeat_repo().latest() returns None: no heartbeat stored yet.
NoHeartbeat == [none |-> TRUE, daily_start_equity |-> NoneInt, peak_equity |-> NoneInt]

\* The row _persist_heartbeat stores, reduced to what is read back.
Heartbeat(daily_start_equity, peak_equity) ==
    [none |-> FALSE, daily_start_equity |-> daily_start_equity,
     peak_equity |-> peak_equity]

\* An empty database: no heartbeat, no trades, no errors.
Store0 == [heartbeat |-> NoHeartbeat, trades |-> <<>>, errors |-> <<>>]

\* Nothing has happened yet: the clock reading at candle 0, the local date of
\* the latest equity update with the number of updates and of assignments
\* of daily_start_equity made on it, and the tickets on_new_deals was given.
\* applies counts the configurations applied; engaged is empty or holds the
\* cooloff_until_utc of the latest cooloff engaged and its local date.
\* listed is the outcome of the latest list_deals ("ok" or "raised"), after
\* the outcome of the one before, with the window it was asked for and the
\* window asked for just before (prior); window
\* is the latest window that was answered, covered the start of the first
\* and the end of the latest of them, and overlapping tells that each of
\* them overlapped the one answered before it.
Hist0 == [origin |-> 0, today |-> None, updates |-> 0, assigns |-> 0, seen |-> <<>>,
          applies |-> 0, engaged |-> <<>>,
          listed |-> None, after |-> None, asked |-> <<>>, prior |-> <<>>,
          window |-> <<>>,
          covered |-> <<>>, overlapping |-> TRUE]

\* _sync_deals advancing on a failed query as on an answered one.
deals_sync_from_always(deals_sync_from, now, listed) == now - SyncOverlapMinutes

\* _deals_sync_from_utc after _sync_deals asked list_deals for the window up
\* to now: assigned only when list_deals returned.
deals_sync_from_after(deals_sync_from, now, listed) ==
    IF listed THEN now - SyncOverlapMinutes ELSE deals_sync_from

\* The history after list_deals was asked for the deals from start to now.
Queried(h, start, now, listed) ==
    [h EXCEPT
        !.listed = IF listed THEN "ok" ELSE "raised",
        !.after = h.listed,
        !.asked = <<start, now>>,
        !.prior = h.asked,
        !.window = IF listed THEN <<start, now>> ELSE @,
        !.covered = IF ~listed THEN @
                    ELSE IF @ = <<>> THEN <<start, now>> ELSE <<@[1], now>>,
        !.overlapping = IF ~listed \/ h.window = <<>> THEN @
                        ELSE @ /\ start <= h.window[2] /\ h.window[1] <= now]

\* RiskManager._load_from_heartbeat on a fresh RiskState.
load_from_heartbeat(hb) ==
    IF hb.none THEN RiskState0
    ELSE [RiskState0 EXCEPT !.daily_start_equity = hb.daily_start_equity,
                            !.peak_equity = hb.peak_equity]

\* A deal with the ticket the broker gave it.
Ticketed(deals, first) ==
    [i \in 1..Len(deals) |->
        [deal_ticket |-> first + i - 1, magic |-> deals[i].magic,
         entry |-> deals[i].entry, profit |-> deals[i].profit]]

RECURSIVE insert_deals_all(_, _)
\* insert_deals that reports every deal it was given as inserted.
insert_deals_all(trades, deals) ==
    IF deals = <<>> THEN [trades |-> trades, inserted |-> <<>>]
    ELSE LET d == Head(deals)
             present == \E i \in 1..Len(trades) : trades[i] = d.deal_ticket
             rest == insert_deals_all(IF present THEN trades
                                      ELSE Append(trades, d.deal_ticket), Tail(deals))
         IN  [trades |-> rest.trades, inserted |-> <<d>> \o rest.inserted]

RECURSIVE insert_deals(_, _)
\* TradeRepo.insert_deals: INSERT OR IGNORE by deal_ticket, one deal after
\* the other; a deal counts as inserted when the statement changed a row.
insert_deals(trades, deals) ==
    IF deals = <<>> THEN [trades |-> trades, inserted |-> <<>>]
    ELSE LET d == Head(deals)
             present == \E i \in 1..Len(trades) : trades[i] = d.deal_ticket
             rest == insert_deals(IF present THEN trades
                                  ELSE Append(trades, d.deal_ticket), Tail(deals))
         IN  [trades |-> rest.trades,
              inserted |-> IF present THEN rest.inserted ELSE <<d>> \o rest.inserted]

\* new_deals of _sync_deals: the listed deals whose ticket is among the
\* inserted ones.
new_deals(deals, inserted) ==
    LET inserted_tickets == {inserted[i].deal_ticket : i \in 1..Len(inserted)}
        Keep(d) == d.deal_ticket \in inserted_tickets
    IN  SelectSeq(deals, Keep)

\* _record_error whose insert into errors is not guarded: a failing insert
\* leaves _record_error as an exception.
record_error_unguarded(e, s, cycle_id, insertOk) ==
    [eng |-> [e EXCEPT !.errors = <<cycle_id>> \o @],
     store |-> IF insertOk THEN [s EXCEPT !.errors = Append(@, cycle_id)] ELSE s,
     propagated |-> ~insertOk]

\* BotEngine._record_error(msg, cycle_id=cycle_id, exc=exc): the message is
\* put at the head of _errors and an errors row with the cycle id is
\* inserted; a failing insert is swallowed.  The notifier catches its own
\* exceptions.
record_error(e, s, cycle_id, insertOk) ==
    [eng |-> [e EXCEPT !.errors = <<cycle_id>> \o @],
     store |-> IF insertOk THEN [s EXCEPT !.errors = Append(@, cycle_id)] ELSE s,
     propagated |-> FALSE]

IdleEngine == eng = Engine0 /\ engObs = NoEngObs /\ store = Store0 /\ hist = Hist0

(***************************************************************************)
(* engine/state.py, engine/bot_engine.py: the snapshot the UI reads        *)
(***************************************************************************)
SnapshotWindow == 10

DequeMaxLen == 50

\* list(deque)[-10:]
LastOf(list, n) ==
    IF Len(list) <= n THEN list ELSE SubSeq(list, Len(list) - n + 1, Len(list))

\* deque(maxlen=50).appendleft(x): the element at the right end falls out.
appendleft(deque, x) ==
    LET all == <<x>> \o deque
    IN  IF Len(all) <= DequeMaxLen THEN all ELSE SubSeq(all, 1, DequeMaxLen)

\* EngineSnapshot(trading_enabled=...): the fields the engine assigns;
\* last_cycle_id None is 0.
EngineSnapshot(trading_enabled) ==
    [connected |-> FALSE, paused |-> FALSE, trading_enabled |-> trading_enabled,
     last_cycle_id |-> 0, last_events |-> <<>>, last_errors |-> <<>>]

\* self._snapshot.__dict__, in the order of the dataclass fields.
SnapshotFields ==
    <<"connected", "paused", "trading_enabled", "last_cycle_id",
      "last_events", "last_errors">>

\* threading.Lock.acquire() with the lock held by nobody.
acquire_unlocked(lock) == TRUE

\* `with self._snapshot_lock:` blocks until the lock is free.
acquire(lock) == lock = "free"

IdleThread == [pc |-> "idle", kwargs |-> <<>>, copy |-> <<>>, at |-> 0, waited |-> FALSE]

\* The engine thread in _run and the process around it: the stop event, the
\* command queue, whether a connector and an anchor symbol exist, where the
\* thread is (top: at the loop test), the loop iterations and cycles begun,
\* the cycles begun after stop was set, the shutdown calls made and the
\* thread's database connection.  ui is "headless" without UI, else whether
\* the app is running or has exited; raised names the call whose exception
\* left _run.
Run0 ==
    [stop |-> FALSE, queue |-> <<>>, connector |-> FALSE, anchor |-> FALSE,
     pc |-> "top", iterations |-> 0, cycles |-> 0, after_stop |-> 0,
     shutdowns |-> 0, handle |-> "open", ui |-> "headless", process |-> "running",
     raised |-> None]

\* BotEngine.__init__ creates no command queue: the attribute _commands is
\* missing (attr = 0) until the commands property sets it to a new
\* CommandQueue.  queues[i] is the content of the i-th queue created; each
\* thread is at a step of the property (q: the queue it returned); commands
\* are numbered 1..put as they are put, and drained are those that
\* get_nowait has returned to _process_commands.
Commands0 ==
    [attr |-> 0, queues |-> <<>>,
     ui |-> [pc |-> "idle", q |-> 0], engine |-> [pc |-> "idle", q |-> 0],
     enqueued |-> 0, put |-> 0, drained |-> {}]

\* BotEngine.__init__: the snapshot, its lock, the two deques, and the engine
\* thread and the UI thread; completed[n + 1] is the snapshot after n
\* completed _set_snapshot calls and returned what the latest get_snapshot
\* returned.  run is the engine thread's loop and commands the lazily
\* created command queue.
Shared0 ==
    [snapshot |-> EngineSnapshot(FALSE), lock |-> "free",
     events |-> <<>>, errors |-> <<>>,
     engine |-> IdleThread, ui |-> IdleThread,
     completed |-> <<EngineSnapshot(FALSE)>>, returned |-> <<>>,
     run |-> Run0, commands |-> Commands0]

(***************************************************************************)
(* notifications/throttle.py, notifications/telegram.py                    *)
(***************************************************************************)
DefaultThrottleSeconds == 20

\* The keys the engine passes to send: f"err:{msg[:60]}", "risk_pause", ...
NotifyKeys == {"err:cycle error", "risk_pause"}

\* Throttle.allow(key) at time.time() = now: the answer and the new _last
\* (a key that is not in the dict maps to NoneInt).
allow_every(last, throttle_seconds, key, now) ==
    [ok |-> TRUE, last |-> [last EXCEPT ![key] = now]]

allow(last, throttle_seconds, key, now) ==
    IF last[key] # NoneInt /\ (now - last[key]) < throttle_seconds
    THEN [ok |-> FALSE, last |-> last]
    ELSE [ok |-> TRUE, last |-> [last EXCEPT ![key] = now]]

\* TelegramNotifier.send(message, key=key) at time now; posted tells whether
\* requests.post of _send_one got the message through (a failure is logged
\* and swallowed).  The result is the notifier after the call and what the
\* call did: dropped (by the throttle) and delivered.
send(n, key, now, posted) ==
    IF ~n.enabled \/ ~n.available
    THEN [notifier |-> n, dropped |-> FALSE, delivered |-> FALSE]
    ELSE LET a == IF key # None THEN allow(n.last, n.throttle_seconds, key, now)
                  ELSE [ok |-> TRUE, last |-> n.last]
         IN  IF ~a.ok
             THEN [notifier |-> n, dropped |-> TRUE, delivered |-> FALSE]
             ELSE [notifier |-> [n EXCEPT !.last = a.last],
                   dropped |-> FALSE, delivered |-> posted]

NoSend == [key |-> None, now |-> NoneInt, before |-> <<>>, prev |-> NoneInt,
           dropped_since |-> FALSE, dropped |-> FALSE, delivered |-> FALSE]

\* TelegramNotifier.from_env(enabled=..., throttle_seconds=...): an empty
\* Throttle; now is time.time(), delivered the time each key last got
\* through, dropped whether a send of the key was dropped since, and obs the
\* latest send.
Notifier0 ==
    [enabled |-> TRUE, available |-> TRUE,
     throttle_seconds |-> DefaultThrottleSeconds,
     last |-> [k \in NotifyKeys |-> NoneInt],
     now |-> 0, delivered |-> [k \in NotifyKeys |-> NoneInt],
     dropped |-> [k \in NotifyKeys |-> FALSE], obs |-> NoSend]

\* No pure function has been called: result holds the value a call returned.
NoPure == [fn |-> None, result |-> <<>>]

IdleSide == shared = Shared0 /\ notifier = Notifier0 /\ pure = NoPure

\* self.db.decision_repo().try_insert(...) called by the engine itself.
EngineTryInsert(w, sym, candle, strategy, side, status) ==
    LET key == make_idempotency_key(sym, Timeframe, iso_utc(candle), strategy, side)
        row == DecisionRow(key, sym, candle, strategy, status, "engine")
        ins == try_insert(w.decisions, row)
    IN  [w EXCEPT !.decisions = ins.rows, !.insert = InsertObs(w.decisions, row, ins)]

\* The arguments of the engine's close_trade call for position pos.
CloseArgs(w, sym, candle, strategy, pos) ==
    [key |-> make_idempotency_key(sym, Timeframe, iso_utc(candle), strategy, FLAT),
     symbol |-> sym, candle |-> candle, strategy |-> strategy,
     side |-> CloseSide(pos), position_id |-> pos.position_id,
     position_magic |-> pos.magic, call |-> Len(w.orders) + 1]

\* The arguments of the engine's open_trade call.
OpenArgs(w, sym, candle, strategy, side) ==
    [key |-> make_idempotency_key(sym, Timeframe, iso_utc(candle), strategy, side),
     symbol |-> sym, candle |-> candle, strategy |-> strategy, side |-> side,
     call |-> Len(w.orders) + 1]

\* What one iteration of the loop of _process_top_symbols leaves behind.
Processed(w, name, signal, held, entry) ==
    [w |-> w, strategy |-> name, signal |-> signal, held |-> held, entry |-> entry]

\* One iteration of `for r in rank_out.selected` in _process_top_symbols
\* from the signal on: name is the selected strategy (None in the mid-zone),
\* signal what its generate_signal returned and pos the bot's position on the
\* symbol in the list fetched at cycle start.  On a reversal the close and
\* the open that follows meet the same broker condition inp; check_entry is
\* given the list fetched at cycle start, not a fresh one.
process_signal(w, st, c, e, sym, name, signal, pos, inp, sizing) ==
    LET NoEntry == RiskDecision(FALSE, None)
    IN
    IF name = None
    THEN Processed(EngineTryInsert(w, sym, e.candle, "none", FLAT,
                                   DECISION_STATUS_NO_SIGNAL),
                   None, Signal(None, FALSE), pos, NoEntry)
    ELSE IF e.manual_paused
    THEN Processed(EngineTryInsert(w, sym, e.candle, name, signal.side,
                                   DECISION_STATUS_RISK_BLOCKED),
                   name, signal, pos, NoEntry)
    ELSE IF signal.side = FLAT /\ signal.exit
    THEN IF ~c.close_on_exit_signal \/ pos = NoPosition
         THEN Processed(w, name, signal, pos, NoEntry)
         ELSE Processed(close_trade(w, c, CloseArgs(w, sym, e.candle, name, pos), inp),
                        name, signal, pos, NoEntry)
    ELSE IF signal.side \in {LONG, SHORT}
    THEN IF pos # NoPosition /\ pos.side = signal.side
         THEN Processed(EngineTryInsert(w, sym, e.candle, name, FLAT,
                                        DECISION_STATUS_SKIPPED),
                        name, signal, pos, NoEntry)
         ELSE LET w1 == IF pos # NoPosition
                        THEN close_trade(w, c, CloseArgs(w, sym, e.candle, name, pos),
                                         inp)
                        ELSE w
                  risk_dec == check_entry(st, c, sym, signal.side, e.view, sizing)
              IN  IF ~risk_dec.allowed
                  THEN Processed(EngineTryInsert(w1, sym, e.candle, name, signal.side,
                                                 DECISION_STATUS_RISK_BLOCKED),
                                 name, signal, pos, risk_dec)
                  ELSE Processed(open_trade(w1, c, OpenArgs(w1, sym, e.candle, name,
                                                            signal.side), inp),
                                 name, signal, pos, risk_dec)
    ELSE Processed(EngineTryInsert(w, sym, e.candle, name, FLAT,
                                   DECISION_STATUS_NO_SIGNAL),
                   name, signal, pos, NoEntry)

\* One iteration of `for r in rank_out.selected` in _process_top_symbols, for
\* a symbol whose bundle, quote and metadata are present.  st is the risk
\* state, e the engine, f the symbol's features, inp what the broker answers
\* to the executor, sizing what check_entry's sizing concludes.
process_symbol(w, st, c, e, sym, f, inp, sizing) ==
    LET name == select(c, f)
        pos == pos_by_symbol(e.view, c.magic_number, sym)
    IN  process_signal(w, st, c, e, sym, name, generate_signal(name, f, pos), pos,
                       inp, sizing)

(***************************************************************************)
(* Specification SpecExec: arbitrary callers of the execution layer.       *)
(* Any sequence of open_trade / close_trade calls and of the engine's own  *)
(* try_insert calls (no-signal, skipped, risk-blocked) on one table.       *)
(***************************************************************************)
NoReport == [action |-> None, success |-> FALSE, reason |-> None, placed |-> 0]

\* broker lists the connector methods the call under way has invoked, warned
\* tells whether its verification logged a warning.
World == [decisions |-> decisions, orders |-> orders, positions |-> positions,
          insert |-> lastInsert, report |-> NoReport, broker |-> <<>>,
          warned |-> FALSE]

\* call_with_retries has not been called.
NoRetry == [calls |-> 0, result |-> None, sleeps |-> <<>>, error |-> None]

NoCall == [action |-> None, key |-> None, present |-> FALSE, ai |-> None,
           dispatched |-> FALSE, trace |-> <<>>, updateOk |-> TRUE,
           report |-> NoReport, retry |-> NoRetry, broker |-> <<>>,
           verify |-> None, warned |-> FALSE]

NoInsert == [key |-> None, present |-> FALSE, inserted |-> FALSE, unchanged |-> TRUE]

\* The reasons with which an executor call returns before call_with_retries.
RefusalReasons == {"trading disabled", "paper-only gate", "duplicate idempotency key"}

\* What a caller observes of one executor call; the broker's answers and the
\* fate of the status UPDATE are kept only for a call that got as far as
\* call_with_retries.
CallObs(action, key, inp, w) ==
    LET dispatched == w.report.reason \notin RefusalReasons IN
    [action |-> action, key |-> key, present |-> KeyPresent(decisions, key),
     ai |-> inp.ai, dispatched |-> dispatched,
     trace |-> IF dispatched THEN inp.outcomes ELSE <<>>,
     updateOk |-> IF dispatched THEN inp.updateOk ELSE TRUE,
     report |-> w.report, retry |-> NoRetry, broker |-> w.broker,
     verify |-> IF w.broker # <<>> /\ w.broker[Len(w.broker)] = "list_positions"
                THEN inp.verify ELSE None,
     warned |-> w.warned]

\* What place_order does in each invocation that call_with_retries makes:
\* every attempt but the last fails with a retryable error (the same kind of
\* error while the broker stays in the same condition), and the run ends with a
\* terminal outcome or with the max_attempts-th retryable failure.
\* With max_attempts < 1 the loop body never runs and fn is never invoked.
AttemptTraces(max_attempts) ==
    IF max_attempts < 1 THEN {<<>>} ELSE
    UNION {{s \in [1..n -> BrokerOutcomes] :
               /\ \A k \in 1..(n - 1) : Retryable(s[k]) /\ s[k] = s[1]
               /\ n < max_attempts => ~Retryable(s[n])} : n \in 1..max_attempts}

\* What the collaborators may answer during one executor call.
Inputs(ais, c) ==
    [ai : ais, outcomes : AttemptTraces(c.max_attempts), updateOk : BOOLEAN,
     verify : {"listed"}]

ExecConfigs ==
    {[DefaultConfig EXCEPT !.trading_enabled = te, !.max_attempts = m] :
        te \in BOOLEAN, m \in 0..MaxAttempts}

\* The (symbol, candle, strategy) tuples the callers of SpecExec decide on.
ExecTuples == {<<"EURUSD", MaxCandle, "two_pole_momentum">>}

\* Positions the broker already holds when the executor is constructed.
SeedPositions ==
    {[position_id |-> 1, symbol |-> "EURUSD", side |-> LONG, magic |-> BotMagic]}

InitExec ==
    /\ cfg \in ExecConfigs
    /\ decisions = <<>>
    /\ orders = <<>>
    /\ positions = SeedPositions
    /\ lastInsert = NoInsert
    /\ lastCall = NoCall
    /\ ncalls = 0
    /\ IdleSched /\ IdleSide /\ IdleRisk /\ IdleEngine

Commit(w, obs) ==
    /\ decisions' = w.decisions
    /\ orders' = w.orders
    /\ positions' = w.positions
    /\ lastInsert' = w.insert
    /\ lastCall' = obs
    /\ ncalls' = ncalls + 1
    /\ UNCHANGED <<cfg, schedVars, sideVars, riskVars, engVars>>

OpenTradeWith(inputs) ==
    /\ ncalls < MaxCalls
    /\ \E t \in ExecTuples, side \in {LONG, SHORT}, inp \in inputs :
         LET key == make_idempotency_key(t[1], Timeframe, iso_utc(t[2]), t[3], side)
             a == [key |-> key, symbol |-> t[1], candle |-> t[2],
                   strategy |-> t[3], side |-> side, call |-> ncalls + 1]
             w == open_trade(World, cfg, a, inp)
         IN  Commit(w, CallObs("open", key, inp, w))

\* The engine closes a position it saw in list_positions at cycle start, with
\* the key of side FLAT; the position may be gone by the time of the call.
CloseTradeWith(inputs) ==
    /\ ncalls < MaxCalls
    /\ \E t \in ExecTuples, p \in positions \cup SeedPositions, inp \in inputs :
         /\ p.symbol = t[1]
         /\ LET key == make_idempotency_key(t[1], Timeframe, iso_utc(t[2]), t[3], FLAT)
                a == [key |-> key, symbol |-> t[1], candle |-> t[2],
                      strategy |-> t[3],
                      side |-> IF p.side = LONG THEN SHORT ELSE LONG,
                      position_id |-> p.position_id, position_magic |-> p.magic,
                      call |-> ncalls + 1]
                w == close_trade(World, cfg, a, inp)
            IN  Commit(w, CallObs("close", key, inp, w))

OpenTrade(ais) == OpenTradeWith(Inputs(ais, cfg))

CloseTrade(ais) == CloseTradeWith(Inputs(ais, cfg))

\* The engine's own decision_repo().try_insert calls: no strategy selected,
\* manual pause, already in position, risk veto, flat signal.
EngineRows ==
    {<<"none", FLAT, DECISION_STATUS_NO_SIGNAL>>}
    \cup {<<n, sd, DECISION_STATUS_RISK_BLOCKED>> : n \in StrategyNames, sd \in Side}
    \cup {<<n, FLAT, DECISION_STATUS_SKIPPED>> : n \in StrategyNames}
    \cup {<<n, FLAT, DECISION_STATUS_NO_SIGNAL>> : n \in StrategyNames}

EngineInsert ==
    /\ ncalls < MaxCalls
    /\ \E t \in ExecTuples, e \in EngineRows :
         /\ e[1] \in {t[3], "none"}
         /\ LET key == make_idempotency_key(t[1], Timeframe, iso_utc(t[2]), e[1], e[2])
                row == DecisionRow(key, t[1], t[2], e[1], e[3], "engine")
                ins == try_insert(decisions, row)
            IN  /\ decisions' = ins.rows
                /\ lastInsert' = InsertObs(decisions, row, ins)
                /\ ncalls' = ncalls + 1
                /\ UNCHANGED <<cfg, orders, positions, lastCall,
                               schedVars, sideVars, riskVars, engVars>>

NextExec == OpenTrade({"DEMO"}) \/ CloseTrade({"DEMO"}) \/ EngineInsert

SpecExec == InitExec /\ [][NextExec]_vars

\* The same callers, with every answer account_info() can give and a broker
\* whose answers are otherwise left open.
NextGate == OpenTrade(AccountInfos) \/ CloseTrade(AccountInfos) \/ EngineInsert

SpecGate == InitExec /\ [][NextGate]_vars

(***************************************************************************)
(* Properties of the execution layer.                                      *)
(***************************************************************************)
OrdersOf(key) == {i \in 1..Len(orders) : orders[i].idempotency_key = key}

CallsOf(key) == {orders[i].call : i \in OrdersOf(key)}

RowsOf(key) == {i \in 1..Len(decisions) : decisions[i].idempotency_key = key}

OrderedKeys == {orders[i].idempotency_key : i \in 1..Len(orders)}

C1_WitnessEngineKey ==
    /\ lastCall.present
    /\ lastCall.report.reason = "duplicate idempotency key"
    /\ \E i \in RowsOf(lastCall.key) : decisions[i].by = "engine"

TerminalFor(call) ==
    IF call.report.success
    THEN (IF call.action = "open" THEN DECISION_STATUS_OPENED ELSE DECISION_STATUS_CLOSED)
    ELSE DECISION_STATUS_ERROR

C3_UniqueKey ==
    /\ \A i, j \in 1..Len(decisions) :
          decisions[i].idempotency_key = decisions[j].idempotency_key => i = j
    /\ lastInsert.present => (~lastInsert.inserted /\ lastInsert.unchanged)

\* An engine insert and an executor insert met on one key.
C3_Witness ==
    /\ lastInsert.present
    /\ ~lastInsert.inserted
    /\ \E i \in RowsOf(lastInsert.key) : decisions[i].by = "engine"
    /\ lastCall.key = lastInsert.key

\* C4 as claimed: an executor call sends an order only if the account info it
\* fetched reports trade mode DEMO or CONTEST.
C4_PaperOnlyGate ==
    lastCall.report.placed > 0 => lastCall.ai \in {"DEMO", "CONTEST"}

(***************************************************************************)
(* Specification SpecSched: one CandleCloseScheduler polled against a      *)
(* broker that may return any frame.                                       *)
(***************************************************************************)
IdleExec(c) ==
    /\ cfg = c
    /\ decisions = <<>>
    /\ orders = <<>>
    /\ positions = {}
    /\ lastInsert = NoInsert
    /\ lastCall = NoCall
    /\ ncalls = 0

InitSched == IdleExec(DefaultConfig) /\ IdleSched /\ IdleSide /\ IdleRisk /\ IdleEngine

Poll ==
    /\ sched.npolls < MaxPolls
    /\ \E df \in Frames :
         LET r == poll(sched.last, df) IN
         sched' = [last |-> r.last, result |-> r.result, df |-> df,
                   returned |-> IF r.result = NoneInt THEN sched.returned
                                ELSE Append(sched.returned, r.result),
                   npolls |-> sched.npolls + 1]
    /\ UNCHANGED <<execVars, riskVars, engVars, sideVars>>

NextSched == Poll

SpecSched == InitSched /\ [][NextSched]_vars

\* C8: the non-empty results of the polls of one scheduler are strictly
\* increasing, whatever frames the broker returns; a returned close time is
\* also what the scheduler remembers as last_candle_close_time_utc.
C8_StrictlyIncreasing ==
    /\ \A i, j \in 1..Len(sched.returned) :
          i < j => sched.returned[i] < sched.returned[j]
    /\ sched.result # NoneInt =>
          /\ sched.returned # <<>>
          /\ sched.returned[Len(sched.returned)] = sched.result
          /\ sched.last = sched.result

\* After two results, a frame whose closed bar is not newer returned nothing.
C8_Witness ==
    /\ Len(sched.returned) >= 2
    /\ sched.result = NoneInt
    /\ ~sched.df.none
    /\ Len(sched.df.time_utc) = 3
    /\ sched.df.time_utc[2] + timeframe_seconds(Timeframe) <= sched.last

(***************************************************************************)
(* Specification SpecRisk: the RiskManager driven by equity updates, deal  *)
(* batches and the passing of time.                                        *)
(***************************************************************************)
\* account.equity as the cycle reads it; NoneInt when there is no account.
Equities == {NoneInt, 0, 94, 97, 98, 100}

Dates == {"2026-01-01", "2026-01-02"}

\* Minutes between two looks at the clock: one candle of the timeframe.
TickMinutes == timeframe_seconds(Timeframe) \div 60

Deal(magic, entry, profit) == [magic |-> magic, entry |-> entry, profit |-> profit]

DealKinds ==
    {Deal(BotMagic, "OUT", <<0 - 5>>), Deal(BotMagic, "OUT", <<>>),
     Deal(BotMagic, "IN", <<0 - 5>>), Deal(ForeignMagic, "OUT", <<0 - 5>>),
     Deal(NoneInt, "OUT", <<0 - 5>>)}

DealLists == UNION {[1..n -> DealKinds] : n \in 0..MaxDeals}

\* RiskManager._load_from_heartbeat: nothing stored, or the equities of the
\* latest heartbeat.
LoadedRiskStates ==
    {RiskState0, [RiskState0 EXCEPT !.daily_start_equity = 100, !.peak_equity = 100]}

InitRisk ==
    /\ IdleExec(DefaultConfig) /\ IdleSched /\ IdleSide /\ IdleEngine
    /\ risk \in LoadedRiskStates
    /\ riskObs = NoRiskObs
    /\ clock = 0

UpdateEquity ==
    /\ \E equity \in Equities, d \in Dates :
         /\ risk' = update_equity_state(risk, cfg, equity, d, clock).state
         /\ riskObs' = [NoRiskObs EXCEPT !.kind = "equity", !.equity = equity,
                                         !.now = clock,
                                         !.same_date = (risk.daily_date = d),
                                         !.paused_before = risk.paused]
    /\ UNCHANGED <<clock, execVars, schedVars, sideVars, engVars>>

OnNewDeals ==
    /\ \E deals \in DealLists :
         LET st == on_new_deals(risk, cfg, deals, cfg.magic_number, clock) IN
         /\ st.loss_streak <= MaxStreak
         /\ risk' = st
         /\ riskObs' = [NoRiskObs EXCEPT !.kind = "deals"]
    /\ UNCHANGED <<clock, execVars, schedVars, sideVars, engVars>>

Tick ==
    /\ clock < MaxTime * TickMinutes
    /\ clock' = clock + TickMinutes
    /\ UNCHANGED <<risk, riskObs, execVars, schedVars, sideVars, engVars>>

NextRisk == UpdateEquity \/ OnNewDeals \/ Tick

SpecRisk == InitRisk /\ [][NextRisk]_vars

\* The daily loss, as a share of the day's start equity, is at least the limit.
DailyLossBreached ==
    /\ riskObs.equity # NoneInt
    /\ risk.daily_start_equity # NoneInt
    /\ risk.daily_start_equity > 0
    /\ (IF risk.daily_start_equity > riskObs.equity
        THEN (risk.daily_start_equity - riskObs.equity) * 100 ELSE 0)
          >= cfg.max_daily_loss_pct * risk.daily_start_equity

DrawdownBreached ==
    /\ riskObs.equity # NoneInt
    /\ risk.peak_equity # NoneInt
    /\ risk.peak_equity > 0
    /\ (IF risk.peak_equity > riskObs.equity
        THEN (risk.peak_equity - riskObs.equity) * 100 ELSE 0)
          >= cfg.max_drawdown_pct * risk.peak_equity

\* The clock the call read was before cooloff_until_utc.
CoolingOff == risk.cooloff_until_utc # NoneInt /\ riskObs.now < risk.cooloff_until_utc

\* C10: after every update_equity_state call, paused is true exactly when
\* the daily loss is at least max_daily_loss_pct, or the drawdown is at least
\* max_drawdown_pct, or now is before cooloff_until_utc; it is recomputed by
\* each call and a reason is recorded exactly when paused.
C10_PausedRecomputed ==
    riskObs.kind = "equity" =>
        /\ risk.paused = (DailyLossBreached \/ DrawdownBreached \/ CoolingOff)
        /\ risk.paused = (risk.pause_reason # None)

\* On the same local date the equity fell below the day's start by more than
\* the limit, and paused went from false to true on the daily-loss gate.
C10_Witness ==
    /\ riskObs.kind = "equity"
    /\ riskObs.same_date
    /\ ~riskObs.paused_before
    /\ risk.paused
    /\ risk.pause_reason = "max daily loss breached"
    /\ (risk.daily_start_equity - riskObs.equity) * 100
          > cfg.max_daily_loss_pct * risk.daily_start_equity

\* A pause is lifted by the next call once no gate holds (not latched).
C10_WitnessUnpause ==
    riskObs.kind = "equity" /\ riskObs.paused_before /\ ~risk.paused

PositionPool ==
    {Position(1, "EURUSD", LONG, BotMagic), Position(2, "EURUSD", SHORT, BotMagic),
     Position(3, "GBPUSD", LONG, BotMagic), Position(4, "EURUSD", LONG, ForeignMagic),
     Position(5, "GBPUSD", SHORT, NoneInt)}

\* Caps at or below the number of positions the pool can show.
EntryConfigs ==
    {[DefaultConfig EXCEPT !.max_open_positions_total = t,
                           !.max_open_positions_per_symbol = s] :
        t \in {1, Cardinality(PositionPool)}, s \in {1, 2}}

\* RiskState as update_equity_state leaves it: not paused, or paused.
EntryRiskStates ==
    {update_equity_state([RiskState0 EXCEPT !.peak_equity = 100], DefaultConfig,
                         e, "2026-01-01", 0).state : e \in {94, 100}}

InitEntry ==
    /\ \E c \in EntryConfigs : IdleExec(c)
    /\ IdleSched /\ IdleSide /\ IdleEngine
    /\ risk \in EntryRiskStates
    /\ riskObs = NoRiskObs
    /\ clock = 0

CheckEntry ==
    /\ \E symbol \in Symbols, side \in Side, ps \in SUBSET PositionPool,
          sizing \in SizingOutcomes :
         riskObs' = [NoRiskObs EXCEPT
                        !.kind = "entry", !.symbol = symbol, !.side = side,
                        !.positions = ps,
                        !.decision = check_entry(risk, cfg, symbol, side, ps, sizing)]
    /\ UNCHANGED <<risk, clock, execVars, schedVars, sideVars, engVars>>

NextEntry == CheckEntry

SpecEntry == InitEntry /\ [][NextEntry]_vars

\* The open positions carrying the configured magic number.
BotPositions(ps) == {p \in ps : p.magic = cfg.magic_number}

\* The inputs of the latest check_entry are at one of the two caps.
AtCap ==
    \/ Cardinality(BotPositions(riskObs.positions)) >= cfg.max_open_positions_total
    \/ Cardinality({p \in BotPositions(riskObs.positions) : p.symbol = riskObs.symbol})
          >= cfg.max_open_positions_per_symbol

LimitReasons == {"max open positions reached", "max positions for symbol reached"}

\* C9 as claimed: at a cap, check_entry returns allowed=false with a reason
\* naming the limit, whatever the other inputs are.
C9_ReasonNamesLimit ==
    (riskObs.kind = "entry" /\ AtCap) =>
        /\ ~riskObs.decision.allowed
        /\ riskObs.decision.reason \in LimitReasons

\* C9 amended: at a cap, check_entry returns allowed=false whatever the other
\* inputs are; the reason names the limit when the side is LONG or SHORT and
\* the risk state is not paused, is 'side is not entry' for any other side,
\* and is the pause reason while paused, those two checks coming first.
C9_BlockedAtCap ==
    (riskObs.kind = "entry" /\ AtCap) =>
        /\ ~riskObs.decision.allowed
        /\ riskObs.decision.reason =
              IF riskObs.side \notin {LONG, SHORT} THEN "side is not entry"
              ELSE IF risk.paused THEN risk.pause_reason
              ELSE IF Cardinality(BotPositions(riskObs.positions))
                         >= cfg.max_open_positions_total
                   THEN "max open positions reached"
                   ELSE "max positions for symbol reached"

\* Only the per-symbol cap is reached, by the bot's own position on the
\* candidate symbol, and the entry is refused for that reason.
C9_Witness ==
    /\ riskObs.kind = "entry"
    /\ riskObs.side = LONG
    /\ ~risk.paused
    /\ Cardinality(BotPositions(riskObs.positions)) < cfg.max_open_positions_total
    /\ AtCap
    /\ riskObs.decision.reason = "max positions for symbol reached"

(***************************************************************************)
(* Specification SpecEngine: the engine's cycles.  BotEngine._run calls    *)
(* _process_commands and then, for each candle close the scheduler         *)
(* returns, _run_cycle; a cycle is modelled as its successive steps: the   *)
(* fetch of account and positions with update_equity_state, one step per   *)
(* selected symbol, and _sync_deals.  Candle closes are numbered 1, 2, ... *)
(***************************************************************************)
\* Trading enabled, rule-based selection, which reaches both strategies and
\* the mid-zone, and a single attempt per order.
EngineConfigs ==
    {[DefaultConfig EXCEPT !.trading_enabled = TRUE, !.max_attempts = 1,
                           !.strategy_mode = "rule_based"]}

\* The broker's book when the engine starts: a position the bot opened in an
\* earlier run, or a position of another expert and one whose magic the
\* terminal does not report.
EngineBooks ==
    {{Position(1, "EURUSD", LONG, BotMagic)},
     {Position(1, "EURUSD", LONG, ForeignMagic), Position(2, "GBPUSD", SHORT, NoneInt)}}

\* account.equity as account_info reports it; NoneInt when account is None.
EngineEquities == {NoneInt, 94, 100}

\* rank_out.selected: nothing, or the one symbol the ranker lets through.
Selections == {<<>>} \cup {<<a>> : a \in Symbols}

\* bundle.features of a selected symbol: trending, mid-zone and ranging ADX
\* with the crossovers and RSI levels the strategies distinguish.
FeatureSets ==
    {Features(25, 1, 1, 50), Features(25, 0 - 1, 0 - 1, 50), Features(25, 0, 1, 50),
     Features(20, 0, 0, 50), Features(15, 0, 0, 25), Features(15, 0, 0, 75),
     Features(15, 0, 0, 50), Features(15, 0, 0, NoFeature)}

\* What the broker answers to the executor during one symbol's iteration.
EngineInputs(c) == {inp \in Inputs({"DEMO"}, c) : inp.updateOk}

\* Whole minutes in a local calendar day.
DayMinutes == 24 * 60

\* now_local.date().isoformat() of a candle close at clock reading now.
LocalDate(now) == IF now < DayMinutes THEN "2026-01-01" ELSE "2026-01-02"

\* The latest heartbeat of the previous run.
EngineHeartbeats == {Heartbeat(100, 100)}

\* The engine restarts on a database whose latest heartbeat stored the
\* equities of the previous run.
EngineRiskStates == {load_from_heartbeat(hb) : hb \in EngineHeartbeats}

InitEngine ==
    /\ cfg \in EngineConfigs
    /\ decisions = <<>>
    /\ orders = <<>>
    /\ positions \in EngineBooks
    /\ lastInsert = NoInsert
    /\ lastCall = NoCall
    /\ ncalls = 0
    /\ IdleSched /\ IdleSide
    /\ eng = Engine0 /\ engObs = NoEngObs /\ hist = Hist0
    /\ store \in {[Store0 EXCEPT !.heartbeat = hb] : hb \in EngineHeartbeats}
    /\ risk = load_from_heartbeat(store.heartbeat)
    /\ riskObs = NoRiskObs
    /\ clock = 0

\* _process_commands between two cycles: a pause or a resume command sets
\* _manual_paused and writes the same value to the snapshot's paused field.
Command ==
    /\ eng.pc = "idle"
    /\ \E paused \in BOOLEAN :
         /\ eng.manual_paused # paused \/ shared.snapshot.paused # paused
         /\ eng' = [eng EXCEPT !.manual_paused = paused]
         /\ shared' = [shared EXCEPT !.snapshot.paused = paused]
    /\ UNCHANGED <<engObs, store, hist, execVars, schedVars, notifier, pure, riskVars>>

\* The history after an equity update on local date d.
Updated(h, d, assigned) ==
    [h EXCEPT !.today = d,
              !.updates = IF h.today = d THEN h.updates + 1 ELSE 1,
              !.assigns = (IF h.today = d THEN h.assigns ELSE 0)
                          + (IF assigned THEN 1 ELSE 0)]

\* _run_cycle from its start to the call of _process_top_symbols, for the
\* equities account_info may report, the answers of positions_get and the
\* selections of the ranker.
CycleStartOn(equities, answers, selections) ==
    /\ eng.pc = "idle"
    /\ eng.candle < MaxCandle
    /\ \E equity \in equities, answered \in answers, selected \in selections :
         LET candle == eng.candle + 1
             now == hist.origin + candle * TickMinutes
         IN  \E r \in {update_equity_state(risk, cfg, equity, LocalDate(now), now)} :
             /\ clock' = now
             /\ risk' = r.state
             /\ riskObs' = [NoRiskObs EXCEPT
                               !.kind = "equity", !.equity = equity, !.now = now,
                               !.same_date = (risk.daily_date = LocalDate(now)),
                               !.paused_before = risk.paused]
             /\ eng' = [eng EXCEPT !.pc = "symbols", !.candle = candle,
                                   !.cycle = @ + 1,
                                   !.todo = selected,
                                   !.view = list_positions(positions, answered)]
             /\ engObs' = NoEngObs
             /\ hist' = Updated(hist, LocalDate(now), r.assigned)
    /\ UNCHANGED <<store, execVars, schedVars, sideVars>>

CycleStart == CycleStartOn(EngineEquities, BOOLEAN, Selections)

\* An iteration that ends at `continue` because the bundle, the quote or the
\* symbol's metadata is missing.
SkipSymbol ==
    /\ eng.pc = "symbols"
    /\ eng.todo # <<>>
    /\ eng' = [eng EXCEPT !.todo = Tail(@)]
    /\ engObs' = NoEngObs
    /\ UNCHANGED <<store, hist, execVars, schedVars, sideVars, riskVars>>

\* An iteration of the loop of _process_top_symbols, for the features the
\* bundle may hold and the outcomes of the sizing.
ProcessSymbolOn(features, sizings) ==
    /\ eng.pc = "symbols"
    /\ eng.todo # <<>>
    /\ \E f \in features, inp \in EngineInputs(cfg), sizing \in sizings :
         \E r \in {process_symbol(World, risk, cfg, eng, Head(eng.todo), f, inp,
                                  sizing)} :
             /\ decisions' = r.w.decisions
             /\ orders' = r.w.orders
             /\ positions' = r.w.positions
             /\ lastInsert' = r.w.insert
             /\ engObs' = [symbol |-> Head(eng.todo), candle |-> eng.candle,
                           strategy |-> r.strategy, signal |-> r.signal,
                           held |-> r.held, manual_paused |-> eng.manual_paused,
                           risk_paused |-> risk.paused,
                           placed |-> Len(r.w.orders) - Len(orders),
                           entry |-> r.entry, raised |-> FALSE, stored |-> FALSE]
             /\ eng' = [eng EXCEPT !.todo = Tail(@)]
    /\ UNCHANGED <<cfg, lastCall, ncalls, store, hist, schedVars, sideVars, riskVars>>

\* The feature vectors of SpecEngine: entries are long ones; the bearish
\* crossover is left to SpecDecide, SpecExit and SpecSignal.
EngineFeatures == FeatureSets \ {Features(25, 0 - 1, 0 - 1, 50)}

ProcessSymbol == ProcessSymbolOn(EngineFeatures, {"ok", "sizing blocked"})

\* _sync_deals for the deals list_deals may return, then the end of the
\* cycle: _persist_heartbeat stores the equities update_equity_state
\* returned, unless the insert fails, and _set_snapshot writes the cycle id
\* and paused = _manual_paused or the risk manager's paused.  When list_deals raises, _sync_deals
\* records the error and returns: no deal is stored or given to the risk
\* manager, and _deals_sync_from_utc is left as it was.
SyncDealsListing(batches, stored, listings, insertOks) ==
    /\ eng.pc = "symbols"
    /\ eng.todo = <<>>
    /\ \E listed \in listings, deals \in batches, hbOk \in stored,
          insertOk \in insertOks :
         LET ins == insert_deals(store.trades, deals)
             fresh == new_deals(deals, ins.inserted)
             st == IF ins.inserted = <<>> THEN risk
                   ELSE on_new_deals(risk, cfg, fresh, cfg.magic_number, clock)
             failed == record_error(eng, store, eng.cycle, insertOk)
             e == IF listed THEN eng ELSE failed.eng
             s == IF listed THEN [store EXCEPT !.trades = ins.trades]
                  ELSE failed.store
             queried == Queried(hist, eng.deals_sync_from, clock, listed)
         IN  /\ listed => st.loss_streak <= MaxStreak
             /\ risk' = IF listed THEN st ELSE risk
             /\ riskObs' = IF ~listed THEN NoRiskObs
                           ELSE [NoRiskObs EXCEPT
                               !.kind = "deals", !.before = risk,
                               !.returned = Len(deals),
                               !.fresh = IF ins.inserted = <<>> THEN 0 ELSE Len(fresh),
                               !.foreign = /\ fresh # <<>>
                                           /\ \A i \in 1..Len(fresh) :
                                                fresh[i].magic # cfg.magic_number]
             /\ store' = [s EXCEPT
                             !.heartbeat = IF hbOk
                                           THEN Heartbeat(risk.daily_start_equity,
                                                          risk.peak_equity)
                                           ELSE @]
             /\ hist' = IF ~listed THEN queried
                        ELSE [queried EXCEPT
                            !.seen = IF ins.inserted = <<>> THEN @
                                     ELSE @ \o [i \in 1..Len(fresh) |->
                                                   fresh[i].deal_ticket],
                            !.engaged = IF st.cooloff_until_utc
                                            = risk.cooloff_until_utc THEN @
                                         ELSE <<st.cooloff_until_utc,
                                                LocalDate(clock)>>]
             /\ eng' = [e EXCEPT
                           !.pc = "idle",
                           !.deals_sync_from =
                               deals_sync_from_after(eng.deals_sync_from, clock,
                                                     listed)]
             /\ shared' = [shared EXCEPT
                              !.snapshot.last_cycle_id = eng.cycle,
                              !.snapshot.paused =
                                  eng.manual_paused
                                  \/ (IF listed THEN st ELSE risk).paused]
    /\ engObs' = NoEngObs
    /\ lastInsert' = NoInsert
    /\ UNCHANGED <<clock, cfg, decisions, orders, positions, lastCall, ncalls,
                   schedVars, notifier, pure>>

\* _sync_deals when list_deals answers.
SyncDealsOn(batches, stored) == SyncDealsListing(batches, stored, {TRUE}, {TRUE})

\* What list_deals returns: nothing, or one losing close of the bot, of a
\* position without magic or of another expert.
EngineDealLists ==
    {<<>>, <<Deal(BotMagic, "OUT", <<0 - 5>>)>>, <<Deal(NoneInt, "OUT", <<0 - 5>>)>>,
     <<Deal(ForeignMagic, "OUT", <<0 - 5>>)>>}

\* Deals closed since the previous reconcile, under the tickets that follow
\* the ones already stored.
FreshBatches == {Ticketed(deals, Len(store.trades) + 1) : deals \in EngineDealLists}

SyncDeals == SyncDealsOn(FreshBatches, {TRUE})

\* The except clause of _run_cycle for an exception raised while symbol sym
\* was being processed (None: elsewhere in the cycle): _record_error, and
\* the rest of the cycle is not run.  An exception that leaves _record_error
\* leaves _run_cycle and _run, and the engine thread ends.
Caught(sym, insertOks) ==
    \E insertOk \in insertOks :
        \E r \in {record_error(eng, store, eng.cycle, insertOk)} :
            /\ eng' = [r.eng EXCEPT !.pc = IF r.propagated THEN "dead" ELSE "idle",
                                    !.todo = <<>>]
            /\ store' = r.store
            /\ engObs' = [NoEngObs EXCEPT !.symbol = sym, !.candle = eng.candle,
                                          !.raised = TRUE, !.stored = insertOk]
            /\ lastInsert' = NoInsert
            /\ UNCHANGED <<cfg, decisions, orders, positions, lastCall, ncalls,
                           hist, schedVars, sideVars, riskVars>>

\* An exception after update_equity_state and outside the loop over the
\* selected symbols (the ranker, _sync_deals, the metrics).
CycleErrorOn(insertOks) ==
    /\ eng.pc = "symbols"
    /\ Caught(None, insertOks)

CycleError == CycleErrorOn({TRUE})

\* An exception in the iteration for the next selected symbol, before it
\* stores or dispatches anything: get_quote or generate_signal raises.
SymbolRaises(insertOks) ==
    /\ eng.pc = "symbols"
    /\ eng.todo # <<>>
    /\ Caught(Head(eng.todo), insertOks)

NextEngine ==
    Command \/ CycleStart \/ SkipSymbol \/ ProcessSymbol \/ SyncDeals \/ CycleError

SpecEngine == InitEngine /\ [][NextEngine]_vars

(***************************************************************************)
(* Specification SpecRun: one engine run with its database.  Cycles,       *)
(* reconciles over overlapping windows of the broker's deal history,       *)
(* heartbeats that may fail to be stored, and the UI commands pause,       *)
(* resume and apply_config.  The account is flat when the run starts.     *)
(***************************************************************************)
RunConfigs ==
    {[DefaultConfig EXCEPT !.trading_enabled = TRUE, !.max_attempts = 1]}

\* The clock reading at candle 0: midnight, or 22:00 local time, so that a
\* local midnight falls between two candle closes of the run.
RunOrigins == {0, 22 * 60}

\* account.equity: account_info returns None, or a flat account.
RunEquities == {NoneInt, 100}

\* A bullish crossover in a rising trend.
RunFeatures == {Features(25, 1, 1, 50)}

\* The broker's deal history: as many losing closes of the bot as engage the
\* cooloff, under tickets 1, 2, ...
RunHistory ==
    Ticketed([i \in 1..DefaultCooloffLosses |-> Deal(BotMagic, "OUT", <<0 - 5>>)], 1)

\* list_deals(since, until): a window of the history; two windows may
\* overlap.
RunBatches ==
    {SubSeq(RunHistory, a, b) : a \in 1..Len(RunHistory), b \in 0..Len(RunHistory)}

InitRun ==
    /\ cfg \in RunConfigs
    /\ decisions = <<>>
    /\ orders = <<>>
    /\ positions = {}
    /\ lastInsert = NoInsert
    /\ lastCall = NoCall
    /\ ncalls = 0
    /\ IdleSched /\ IdleSide
    /\ hist \in {[Hist0 EXCEPT !.origin = o] : o \in RunOrigins}
    /\ eng = [Engine0 EXCEPT !.deals_sync_from = hist.origin - SyncLookbackMinutes]
    /\ engObs = NoEngObs
    /\ store \in {Store0} \cup {[Store0 EXCEPT !.heartbeat = hb] : hb \in EngineHeartbeats}
    /\ risk = load_from_heartbeat(store.heartbeat)
    /\ riskObs = NoRiskObs
    /\ clock = hist.origin

\* _apply_config with a valid configuration: the risk manager is built anew
\* and reads the latest heartbeat, and the scheduler is built anew, so the
\* candle of the latest cycle is either returned once more or already
\* superseded when the scheduler is polled next.
ApplyConfig ==
    /\ eng.pc = "idle"
    /\ hist.applies < MaxApplies
    /\ cfg' \in RunConfigs
    /\ risk' = load_from_heartbeat(store.heartbeat)
    /\ riskObs' = [NoRiskObs EXCEPT !.kind = "apply", !.before = risk]
    /\ \E again \in BOOLEAN :
         eng' = [eng EXCEPT !.candle = IF again /\ @ > 0 THEN @ - 1 ELSE @]
    /\ hist' = [hist EXCEPT !.applies = @ + 1]
    /\ engObs' = NoEngObs
    /\ sched' = [sched EXCEPT !.last = NoneInt, !.result = NoneInt]
    /\ UNCHANGED <<clock, decisions, orders, positions, lastInsert, lastCall, ncalls,
                   store, sideVars>>

RunCycleStart == CycleStartOn(RunEquities, {TRUE}, {<<"EURUSD">>})

RunProcessSymbol == ProcessSymbolOn(RunFeatures, {"ok"})

RunSyncDeals == SyncDealsOn(RunBatches, BOOLEAN)

NextRun ==
    Command \/ ApplyConfig \/ RunCycleStart \/ RunProcessSymbol \/ RunSyncDeals

SpecRun == InitRun /\ [][NextRun]_vars

(***************************************************************************)
(* Specification SpecReconcile: the reconciles of one engine run.  The     *)
(* ranker selects nothing, so a cycle is update_equity_state followed by   *)
(* _sync_deals over a window of the broker's deal history; the UI may      *)
(* pause, resume and apply a configuration between cycles.                 *)
(***************************************************************************)
ReconcileCycleStart == CycleStartOn({100}, {TRUE}, {<<>>})

ReconcileSyncDeals == SyncDealsOn(RunBatches, {TRUE})

NextReconcile == Command \/ ApplyConfig \/ ReconcileCycleStart \/ ReconcileSyncDeals

SpecReconcile == InitRun /\ [][NextReconcile]_vars

(***************************************************************************)
(* Specification SpecCycle: cycles over two selected symbols in which any  *)
(* step may raise and the insert into errors may fail.  The account is     *)
(* flat when the run starts.                                               *)
(***************************************************************************)
InitCycle ==
    /\ cfg \in RunConfigs
    /\ decisions = <<>>
    /\ orders = <<>>
    /\ positions = {}
    /\ lastInsert = NoInsert
    /\ lastCall = NoCall
    /\ ncalls = 0
    /\ IdleSched /\ IdleSide
    /\ eng = Engine0 /\ engObs = NoEngObs /\ hist = Hist0
    /\ store \in {[Store0 EXCEPT !.heartbeat = hb] : hb \in EngineHeartbeats}
    /\ risk = load_from_heartbeat(store.heartbeat)
    /\ riskObs = NoRiskObs
    /\ clock = 0

CycleCycleStart == CycleStartOn({100}, {TRUE}, {<<"EURUSD", "GBPUSD">>})

CycleProcessSymbol == ProcessSymbolOn(RunFeatures, {"ok"})

CycleSymbolRaises == SymbolRaises(BOOLEAN)

CycleCycleError == CycleErrorOn(BOOLEAN)

CycleSyncDeals == SyncDealsOn({<<>>}, {TRUE})

NextCycle ==
    \/ CycleCycleStart \/ CycleProcessSymbol \/ CycleSymbolRaises
    \/ CycleCycleError \/ CycleSyncDeals

SpecCycle == InitCycle /\ [][NextCycle]_vars

(***************************************************************************)
(* Specification SpecRetry: call_with_retries on its own, for every        *)
(* max_attempts and backoff list the configuration accepts and for every   *)
(* behaviour of fn over the attempts.                                      *)
(***************************************************************************)
\* execution.retries.backoff_seconds: list[float], which may be empty.
BackoffLists == {<<>>, <<2>>, DefaultBackoffSeconds}

RetryConfigs ==
    {[DefaultConfig EXCEPT !.max_attempts = m, !.backoff_seconds = b] :
        m \in 0..(MaxAttempts + 1), b \in BackoffLists}

\* What fn does at its first, second, ... invocation.
RetryTraces(max_attempts) == [1..max_attempts -> BrokerOutcomes]

InitRetry ==
    /\ \E c \in RetryConfigs : IdleExec(c)
    /\ IdleSched /\ IdleSide /\ IdleRisk /\ IdleEngine

CallWithRetries ==
    /\ \E outcomes \in RetryTraces(cfg.max_attempts) :
         lastCall' = [NoCall EXCEPT
                         !.action = "call_with_retries", !.trace = outcomes,
                         !.retry = call_with_retries(outcomes, cfg.max_attempts,
                                                     cfg.backoff_seconds)]
    /\ UNCHANGED <<cfg, decisions, orders, positions, lastInsert, ncalls,
                   schedVars, sideVars, riskVars, engVars>>

NextRetry == CallWithRetries

SpecRetry == InitRetry /\ [][NextRetry]_vars

(***************************************************************************)
(* Specification SpecVerify: executor calls on a paper account, with the   *)
(* switch on or off, for every outcome of the order and every answer of    *)
(* list_positions to the verification that follows a success.              *)
(***************************************************************************)
\* One attempt per order, or one retry.
VerifyConfigs ==
    {[DefaultConfig EXCEPT !.trading_enabled = te, !.max_attempts = m] :
        te \in BOOLEAN, m \in 1..2}

VerifyInputs(c) ==
    [ai : {"DEMO"}, outcomes : AttemptTraces(c.max_attempts), updateOk : BOOLEAN,
     verify : Verifications]

InitVerify ==
    /\ cfg \in VerifyConfigs
    /\ decisions = <<>>
    /\ orders = <<>>
    /\ positions = SeedPositions
    /\ lastInsert = NoInsert
    /\ lastCall = NoCall
    /\ ncalls = 0
    /\ IdleSched /\ IdleSide /\ IdleRisk /\ IdleEngine

VerifyOpenTrade == OpenTradeWith(VerifyInputs(cfg))

VerifyCloseTrade == CloseTradeWith(VerifyInputs(cfg))

NextVerify == VerifyOpenTrade \/ VerifyCloseTrade

SpecVerify == InitVerify /\ [][NextVerify]_vars

(***************************************************************************)
(* Specification SpecReversal: the engine's cycles with a strategy that    *)
(* may return any Signal, as the StrategyBase interface allows, while the  *)
(* bot holds a position.                                                   *)
(***************************************************************************)
\* The default caps, and a per-symbol cap that leaves room for a second
\* position.
ReversalConfigs ==
    {[DefaultConfig EXCEPT !.trading_enabled = TRUE, !.max_attempts = 1,
                           !.max_open_positions_per_symbol = cap] :
        cap \in {DefaultMaxOpenPositionsPerSymbol, DefaultMaxOpenPositionsPerSymbol + 1}}

\* Signal(side=..., tags=...) as generate_signal may return it.
ReversalSignals ==
    {Signal(LONG, FALSE), Signal(SHORT, FALSE), Signal(FLAT, TRUE), Signal(FLAT, FALSE)}

InitReversal ==
    /\ cfg \in ReversalConfigs
    /\ decisions = <<>>
    /\ orders = <<>>
    /\ positions = {Position(1, "EURUSD", LONG, BotMagic)}
    /\ lastInsert = NoInsert
    /\ lastCall = NoCall
    /\ ncalls = 0
    /\ IdleSched /\ IdleSide
    /\ eng = Engine0 /\ engObs = NoEngObs /\ hist = Hist0
    /\ store \in {[Store0 EXCEPT !.heartbeat = hb] : hb \in EngineHeartbeats}
    /\ risk = load_from_heartbeat(store.heartbeat)
    /\ riskObs = NoRiskObs
    /\ clock = 0

ReversalCycleStart == CycleStartOn({100}, {TRUE}, {<<"EURUSD">>})

\* An iteration of the loop of _process_top_symbols in which the selected
\* strategy returns one of the signals.
ProcessSignal ==
    /\ eng.pc = "symbols"
    /\ eng.todo # <<>>
    /\ \E signal \in ReversalSignals, inp \in EngineInputs(cfg) :
         LET sym == Head(eng.todo)
             pos == pos_by_symbol(eng.view, cfg.magic_number, sym)
         IN  \E r \in {process_signal(World, risk, cfg, eng, sym, cfg.manual_active,
                                      signal, pos, inp, "ok")} :
             /\ decisions' = r.w.decisions
             /\ orders' = r.w.orders
             /\ positions' = r.w.positions
             /\ lastInsert' = r.w.insert
             /\ engObs' = [symbol |-> sym, candle |-> eng.candle,
                           strategy |-> r.strategy, signal |-> r.signal,
                           held |-> r.held, manual_paused |-> eng.manual_paused,
                           risk_paused |-> risk.paused,
                           placed |-> Len(r.w.orders) - Len(orders),
                           entry |-> r.entry, raised |-> FALSE, stored |-> FALSE]
             /\ eng' = [eng EXCEPT !.todo = Tail(@)]
    /\ UNCHANGED <<cfg, lastCall, ncalls, store, hist, schedVars, sideVars, riskVars>>

ReversalSyncDeals == SyncDealsOn({<<>>}, {TRUE})

NextReversal == Command \/ ReversalCycleStart \/ ProcessSignal \/ ReversalSyncDeals

SpecReversal == InitReversal /\ [][NextReversal]_vars

(***************************************************************************)
(* Properties of the engine's cycles                                       *)
(***************************************************************************)
\* The decisions the engine stored for the symbol it just processed.
StoredFor(sym, candle) ==
    {i \in 1..Len(decisions) :
        decisions[i].symbol = sym /\ decisions[i].candle = candle}

\* C5: in a cycle in which manual_paused or risk.paused is true the engine
\* dispatches no order, neither an open nor a close, and for every selected
\* symbol for which a strategy produced a signal it stores a decision with
\* status risk-blocked.
C5_PausedDispatchesNothing ==
    (engObs.symbol # None /\ (engObs.manual_paused \/ engObs.risk_paused)) =>
        /\ engObs.placed = 0
        /\ engObs.strategy # None =>
             \E i \in StoredFor(engObs.symbol, engObs.candle) :
                 decisions[i].status = DECISION_STATUS_RISK_BLOCKED

\* C6: the bot never holds more than one open position per (symbol, bot
\* magic number).
C6_OnePositionPerSymbol ==
    \A s \in Symbols :
        Cardinality({p \in positions : p.symbol = s /\ p.magic = cfg.magic_number}) <= 1

\* C7: every order carries the configured magic number, and a position or
\* deal whose magic differs from it is ignored: no close is dispatched for
\* such a position, check_entry does not count it towards a cap, and
\* on_new_deals changes neither loss_streak nor cooloff_until_utc for it.
C7_OtherMagicIgnored ==
    /\ \A i \in 1..Len(orders) :
         /\ orders[i].magic = cfg.magic_number
         /\ orders[i].action = "close" => orders[i].position_magic = cfg.magic_number
    /\ engObs.entry.reason = "max open positions reached" =>
         Cardinality({p \in eng.view : p.magic = cfg.magic_number})
             >= cfg.max_open_positions_total
    /\ engObs.entry.reason = "max positions for symbol reached" =>
         Cardinality({p \in eng.view : p.magic = cfg.magic_number
                                       /\ p.symbol = engObs.symbol})
             >= cfg.max_open_positions_per_symbol
    /\ (riskObs.kind = "deals" /\ riskObs.foreign) =>
         /\ risk.loss_streak = riskObs.before.loss_streak
         /\ risk.cooloff_until_utc = riskObs.before.cooloff_until_utc

\* C12: daily_start_equity is assigned exactly once per local calendar day,
\* on the first equity update of that day, and never again until the date
\* changes: whenever an equity update has been made on the current local
\* date, exactly one assignment has been made on it.
C12_DailyStartOncePerDay ==
    hist.updates >= 1 => hist.assigns = 1

\* C13: once a loss streak has engaged the cooloff, the engine dispatches no
\* open order in a cycle that starts before cooloff_until_utc on the same
\* local date.
C13_NoOpenDuringCooloff ==
    (/\ engObs.symbol # None
     /\ hist.engaged # <<>>
     /\ clock < hist.engaged[1]
     /\ LocalDate(clock) = hist.engaged[2]) =>
        ~(engObs.placed > 0 /\ orders[Len(orders)].action = "open")

RetryableUpTo(n) == \A k \in 1..n : Retryable(lastCall.trace[k])

\* What C15 says of the invocations and of the way call_with_retries ends:
\* at most max_attempts invocations, a further one only after a retryable
\* or disconnected error, any other exception leaves after the call that
\* raised it, a result is returned at once, and when every attempt failed
\* retryably the last error is raised.
RetryInvocations ==
    LET r == lastCall.retry
        t == lastCall.trace
        m == cfg.max_attempts
    IN  /\ r.calls <= (IF m < 0 THEN 0 ELSE m)
        /\ RetryableUpTo(r.calls - 1)
        /\ r.calls < m => ~Retryable(t[r.calls])
        /\ (r.calls >= 1 /\ t[r.calls] = "fatal") =>
              r.result = "raised" /\ r.error = "fatal"
        /\ (r.calls >= 1 /\ t[r.calls] \in {"done", "failed"}) =>
              r.result = t[r.calls] /\ r.error = None
        /\ (m >= 1 /\ RetryableUpTo(m)) =>
              r.calls = m /\ r.result = "raised" /\ r.error = t[m]

\* C15: call_with_retries invokes fn at most max_attempts times, re-invokes
\* only after a retryable or disconnected error, sleeping
\* backoff_seconds[min(k-1, len-1)] after the k-th failed attempt before it
\* re-invokes; any other exception propagates at once, a successful call
\* returns at once, and when every attempt fails retryably the last error is
\* raised.
C15_RetryWithBackoff ==
    lastCall.action = "call_with_retries" =>
        LET r == lastCall.retry
            b == cfg.backoff_seconds
            last == Len(b) - 1
        IN  /\ RetryInvocations
            /\ Len(r.sleeps) = (IF r.calls > 1 THEN r.calls - 1 ELSE 0)
            /\ \A k \in 1..Len(r.sleeps) :
                  LET i == IF k - 1 < last THEN k - 1 ELSE last
                  IN  i >= 0 /\ r.sleeps[k] = b[i + 1]

\* C15, amended: as C15, with a sleep of one second between attempts when
\* backoff_seconds is empty, and with AssertionError raised without any
\* invocation when max_attempts is less than 1.
C15_RetryWithBackoffOrDefault ==
    lastCall.action = "call_with_retries" =>
        LET r == lastCall.retry
            b == cfg.backoff_seconds
            last == Len(b) - 1
        IN  /\ RetryInvocations
            /\ Len(r.sleeps) = (IF r.calls > 1 THEN r.calls - 1 ELSE 0)
            /\ \A k \in 1..Len(r.sleeps) :
                  LET i == IF k - 1 < last THEN k - 1 ELSE last
                  IN  r.sleeps[k] = IF b = <<>> THEN 1 ELSE b[i + 1]
            /\ cfg.max_attempts < 1 => r.calls = 0 /\ r.error = "AssertionError"

\* Three attempts with the default backoff: sleeps of 1 and 3 seconds, then
\* the third error, of another kind than the first, is raised.
C15_Witness ==
    /\ lastCall.action = "call_with_retries"
    /\ lastCall.retry.calls = 3
    /\ lastCall.retry.sleeps = <<1, 3>>
    /\ lastCall.retry.error = "disconnected"
    /\ lastCall.trace[1] = "retryable"

\* C16: across reconciles over overlapping windows each broker deal is
\* inserted into trades at most once, by its ticket; on_new_deals and the
\* trade-close notification are given a deal at most once and only in the
\* reconcile that inserted it, so the tickets they were given are the
\* tickets of trades in the same order; the loss streak grows by the newly
\* inserted losing deals alone, and a reconcile that inserts nothing changes
\* neither loss_streak nor cooloff_until_utc.
C16_DealsCountedOnce ==
    /\ \A i, j \in 1..Len(store.trades) :
          store.trades[i] = store.trades[j] => i = j
    /\ hist.seen = store.trades
    /\ riskObs.kind = "deals" =>
          /\ risk.loss_streak = riskObs.before.loss_streak + riskObs.fresh
          /\ riskObs.fresh = 0 =>
                risk.cooloff_until_utc = riskObs.before.cooloff_until_utc

\* A reconcile whose window returned a deal stored by an earlier reconcile
\* together with a new one.
C16_Witness ==
    /\ riskObs.kind = "deals"
    /\ riskObs.fresh >= 1
    /\ riskObs.returned > riskObs.fresh
    /\ Len(store.trades) > riskObs.fresh
    /\ risk.loss_streak = riskObs.before.loss_streak + 1

\* C17: if processing one selected symbol raises, the remaining selected
\* symbols of the cycle are still processed and the cycle's reconcile and
\* heartbeat still run: after the exception the cycle is still under way
\* with the symbols that follow the failing one.
C17_SymbolErrorIsolated ==
    (engObs.raised /\ engObs.symbol # None) =>
        /\ eng.pc = "symbols"
        /\ engObs.symbol = "EURUSD" => eng.todo = <<"GBPUSD">>

OrdersOfCall ==
    {i \in 1..Len(orders) : orders[i].call = ncalls}

\* C19: when trading_enabled is false, open_trade and close_trade return an
\* unsuccessful report with reason 'trading disabled' without any broker
\* call: no account_info, no place_order, no list_positions.
C19_DisabledNoBrokerCall ==
    (~cfg.trading_enabled /\ lastCall.action \in {"open", "close"}) =>
        /\ lastCall.report = Report(lastCall.action, FALSE, "trading disabled", 0)
        /\ lastCall.broker = <<>>
        /\ orders = <<>>
        /\ decisions = <<>>
        /\ positions = SeedPositions

\* Both calls were made with the switch off.
C19_Witness ==
    /\ ~cfg.trading_enabled
    /\ ncalls = 2
    /\ lastCall.action = "close"
    /\ lastCall.report.reason = "trading disabled"

\* C20: post-trade verification is a detector only: whatever list_positions
\* answers (listed, not listed, raising), a successful open_trade or
\* close_trade returns the same successful report, leaves the decision's
\* status as stored before the verification, and places no further order:
\* the place_order invocations are those of call_with_retries, followed by
\* the one list_positions call.
C20_VerificationOnlyDetects ==
    lastCall.verify # None =>
        LET ok == IF lastCall.action = "open" THEN "opened" ELSE "closed"
            n == Len(lastCall.trace)
        IN  /\ lastCall.report = Report(lastCall.action, TRUE, ok, n)
            /\ lastCall.broker = Placed(<<"account_info">>, n) \o <<"list_positions">>
            /\ Cardinality(OrdersOfCall) = n
            /\ \A i \in 1..Len(decisions) :
                  decisions[i].idempotency_key = lastCall.key =>
                      decisions[i].status = IF lastCall.updateOk THEN ok
                                            ELSE DECISION_STATUS_SKIPPED

\* A successful open whose position the verification did not find.
C20_Witness ==
    /\ lastCall.verify = "not listed"
    /\ lastCall.action = "open"
    /\ lastCall.warned
    /\ lastCall.report.success

(***************************************************************************)
(* The engine thread and the UI thread on the snapshot: _set_snapshot is   *)
(* taken one assignment at a time and get_snapshot one field at a time, so *)
(* that every interleaving the lock allows is a behaviour.                 *)
(***************************************************************************)
MaxSnapshotCalls == 2

\* The keyword arguments of the engine's _set_snapshot calls: connected,
\* pause and resume, and the end of the cycle numbered n.
SnapshotCalls(n) ==
    {<<<<"connected", TRUE>>>>, <<<<"paused", TRUE>>>>}
    \cup {<<<<"last_cycle_id", n>>, <<"trading_enabled", TRUE>>, <<"paused", p>>>> :
            p \in BOOLEAN}

\* The engine thread reaches a _set_snapshot(**kwargs) call.
SetSnapshotCall ==
    /\ shared.engine.pc = "idle"
    /\ Len(shared.completed) <= MaxSnapshotCalls
    /\ \E kwargs \in SnapshotCalls(Len(shared.completed)) :
         shared' = [shared EXCEPT !.engine = [@ EXCEPT !.pc = "waiting",
                                                       !.kwargs = kwargs]]

\* with self._snapshot_lock:
SetSnapshotAcquire ==
    /\ shared.engine.pc = "waiting"
    /\ acquire(shared.lock)
    /\ shared' = [shared EXCEPT !.lock = "engine", !.engine.pc = "setattr"]

\* for k, v in kwargs.items(): setattr(self._snapshot, k, v)
SetAttr ==
    /\ shared.engine.pc = "setattr"
    /\ shared.engine.kwargs # <<>>
    /\ LET kv == Head(shared.engine.kwargs)
       IN  shared' = [shared EXCEPT !.snapshot = [@ EXCEPT ![kv[1]] = kv[2]],
                                    !.engine.kwargs = Tail(@)]

\* self._snapshot.last_events = list(self._events)[-10:]
SetLastEvents ==
    /\ shared.engine.pc = "setattr"
    /\ shared.engine.kwargs = <<>>
    /\ shared' = [shared EXCEPT
                    !.snapshot.last_events = LastOf(shared.events, SnapshotWindow),
                    !.engine.pc = "last_errors"]

\* self._snapshot.last_errors = list(self._errors)[-10:], and the lock is
\* released on leaving the with block.
SetLastErrors ==
    /\ shared.engine.pc = "last_errors"
    /\ LET snap == [shared.snapshot EXCEPT
                      !.last_errors = LastOf(shared.errors, SnapshotWindow)]
       IN  shared' = [shared EXCEPT !.snapshot = snap, !.lock = "free",
                                    !.engine = IdleThread,
                                    !.completed = Append(@, snap)]

\* self._events.appendleft(msg) in _event and self._errors.appendleft(msg)
\* in _record_error, both on the engine thread between two snapshot updates.
Appendleft ==
    /\ shared.engine.pc = "idle"
    /\ Len(shared.events) + Len(shared.errors) < MaxSnapshotCalls
    /\ \/ shared' = [shared EXCEPT !.events = appendleft(@, Len(@) + 1)]
       \/ shared' = [shared EXCEPT !.errors = appendleft(@, Len(@) + 1)]

\* The UI thread calls engine.get_snapshot(); waited tells that the engine
\* held the lock at that moment.
GetSnapshotCall ==
    /\ shared.ui.pc = "idle"
    /\ shared' = [shared EXCEPT !.ui = [@ EXCEPT !.pc = "waiting",
                                                 !.waited = shared.lock = "engine"]]

\* with self._snapshot_lock:
GetSnapshotAcquire ==
    /\ shared.ui.pc = "waiting"
    /\ acquire(shared.lock)
    /\ shared' = [shared EXCEPT !.lock = "ui",
                                !.ui = [@ EXCEPT !.pc = "copy", !.copy = <<>>,
                                                 !.at = Len(shared.completed) - 1]]

\* EngineSnapshot(**self._snapshot.__dict__) reads the fields one by one.
CopyField ==
    /\ shared.ui.pc = "copy"
    /\ Len(shared.ui.copy) < Len(SnapshotFields)
    /\ shared' = [shared EXCEPT !.ui.copy =
                    Append(@, shared.snapshot[SnapshotFields[Len(@) + 1]])]

\* The copy is complete: the lock is released and the copy returned.
GetSnapshotReturn ==
    /\ shared.ui.pc = "copy"
    /\ Len(shared.ui.copy) = Len(SnapshotFields)
    /\ LET c == shared.ui.copy
           snap == [connected |-> c[1], paused |-> c[2], trading_enabled |-> c[3],
                    last_cycle_id |-> c[4], last_events |-> c[5],
                    last_errors |-> c[6]]
       IN  shared' = [shared EXCEPT
                        !.lock = "free", !.ui = IdleThread,
                        !.returned = <<[snapshot |-> snap, at |-> shared.ui.at,
                                        waited |-> shared.ui.waited]>>]

InitSnapshot ==
    /\ IdleExec(DefaultConfig) /\ IdleSched /\ IdleRisk /\ IdleEngine
    /\ shared = Shared0 /\ notifier = Notifier0 /\ pure = NoPure

NextSnapshot ==
    /\ \/ SetSnapshotCall \/ SetSnapshotAcquire \/ SetAttr \/ SetLastEvents
       \/ SetLastErrors \/ Appendleft
       \/ GetSnapshotCall \/ GetSnapshotAcquire \/ CopyField \/ GetSnapshotReturn
    /\ UNCHANGED <<execVars, schedVars, riskVars, engVars, notifier, pure>>

SpecSnapshot == InitSnapshot /\ [][NextSnapshot]_vars

\* C21: every snapshot get_snapshot returns is the snapshot as it was after
\* a whole number of completed _set_snapshot calls, namely those completed
\* when the reader took the lock; no reader sees part of one call's fields.
C21_SnapshotReadsAtomic ==
    \A i \in 1..Len(shared.returned) :
        shared.returned[i].snapshot = shared.completed[shared.returned[i].at + 1]

\* A reader that called while the engine was inside _set_snapshot has
\* returned the snapshot of a completed call that assigned several fields.
C21_Witness ==
    \E i \in 1..Len(shared.returned) :
        /\ shared.returned[i].waited
        /\ shared.returned[i].at >= 1
        /\ shared.returned[i].snapshot.last_cycle_id >= 1

(***************************************************************************)
(* The notifier under sends of the engine and the passing of time.         *)
(***************************************************************************)
MaxNow == 3

ThrottleSettings == 0..2

InitThrottle ==
    /\ IdleExec(DefaultConfig) /\ IdleSched /\ IdleRisk /\ IdleEngine
    /\ shared = Shared0 /\ pure = NoPure
    /\ \E e \in BOOLEAN, a \in BOOLEAN, t \in ThrottleSettings :
         notifier = [Notifier0 EXCEPT !.enabled = e, !.available = a,
                                      !.throttle_seconds = t]

\* time.time() moves on.
TimePasses ==
    /\ notifier.now < MaxNow
    /\ notifier' = [notifier EXCEPT !.now = @ + 1]

\* self._notifier.send(message, key=key), with or without a key.  For each
\* key the notifier remembers the time of its latest delivery and whether a
\* send of the key has been dropped since.
Send ==
    \E key \in NotifyKeys \cup {None}, posted \in BOOLEAN :
      \E r \in {send(notifier, key, notifier.now, posted)} :
        notifier' = [r.notifier EXCEPT
                       !.delivered = IF r.delivered /\ key # None
                                     THEN [@ EXCEPT ![key] = notifier.now] ELSE @,
                       !.dropped = IF key = None THEN @
                                   ELSE [@ EXCEPT ![key] = r.dropped \/ (@ /\ ~r.delivered)],
                       !.obs = [key |-> key, now |-> notifier.now,
                                before |-> notifier.last,
                                prev |-> IF key = None THEN NoneInt
                                         ELSE notifier.delivered[key],
                                dropped_since |-> IF key = None THEN FALSE
                                                  ELSE notifier.dropped[key],
                                dropped |-> r.dropped,
                                delivered |-> r.delivered]]

NextThrottle ==
    /\ TimePasses \/ Send
    /\ UNCHANGED <<execVars, schedVars, riskVars, engVars, shared, pure>>

SpecThrottle == InitThrottle /\ [][NextThrottle]_vars

\* C22: a send with a key whose latest delivery is less than throttle_seconds
\* ago is dropped, so a delivered message is at least throttle_seconds after
\* the previous delivered message with its key (and, time moving forward,
\* after every earlier one); a dropped send leaves every last-send timestamp
\* as it was; and no send moves the timestamp of another key.
C22_ThrottlePerKey ==
    /\ (notifier.obs.key # None /\ notifier.obs.prev # NoneInt
            /\ notifier.obs.now - notifier.obs.prev < notifier.throttle_seconds) =>
          /\ ~notifier.obs.delivered
          /\ (notifier.enabled /\ notifier.available) => notifier.obs.dropped
    /\ notifier.obs.dropped => notifier.last = notifier.obs.before
    /\ notifier.obs.now # NoneInt =>
          \A k \in NotifyKeys \ {notifier.obs.key} :
              notifier.last[k] = notifier.obs.before[k]

\* A key is delivered again once throttle_seconds have passed, after a send
\* with it was dropped in between and while another key was delivered too.
C22_Witness ==
    /\ notifier.throttle_seconds > 0
    /\ notifier.obs.delivered /\ notifier.obs.prev # NoneInt
    /\ notifier.obs.dropped_since
    /\ \E k \in NotifyKeys \ {notifier.obs.key} :
         notifier.delivered[k] > notifier.obs.prev

(***************************************************************************)
(* risk/sizing.py: volumes are exact fractions n/d of a lot.               *)
(***************************************************************************)
Frac(n, d) == [n |-> n, d |-> d]

Less(a, b) == a.n * b.d < b.n * a.d

\* math.floor(value / step) * step; a step that is not positive leaves the
\* value as it is.
round_down_to_step(value, step) ==
    IF step <= 0 THEN value
    ELSE Frac((value.n \div (value.d * step)) * step, 1)

VolumeResult(ok, volume, reason) == [ok |-> ok, volume |-> volume, reason |-> reason]

\* compute_volume(equity=, risk_per_trade=, stop_points=, symbol=); in the
\* symbol metadata a missing value (None) is 0, as `float(x or 0.0)` makes it.
compute_volume(equity, risk_per_trade, stop_points, symbol) ==
    IF equity <= 0 THEN VolumeResult(FALSE, None, "equity unavailable")
    ELSE IF stop_points <= 0 THEN VolumeResult(FALSE, None, "invalid stop distance")
    ELSE IF symbol.point <= 0 \/ symbol.trade_tick_value <= 0
            \/ symbol.trade_tick_size <= 0
    THEN VolumeResult(FALSE, None, "missing symbol tick metadata for sizing")
    ELSE
      LET \* money_per_point = tick_value * point / tick_size
          raw == Frac(equity * risk_per_trade * symbol.trade_tick_size,
                      stop_points * symbol.trade_tick_value * symbol.point)
          vol_min == Frac(symbol.volume_min, 1)
          vol_max == Frac(symbol.volume_max, 1)
          up == IF symbol.volume_min > 0 /\ Less(raw, vol_min) THEN vol_min ELSE raw
          clamped == IF symbol.volume_max > 0 /\ Less(vol_max, up) THEN vol_max ELSE up
          stepped == round_down_to_step(clamped, symbol.volume_step)
          vol == IF symbol.volume_step > 0 /\ symbol.volume_min > 0
                    /\ Less(stepped, vol_min)
                 THEN vol_min ELSE stepped
      IN  IF vol.n <= 0 THEN VolumeResult(FALSE, None, "computed volume <= 0")
          ELSE VolumeResult(TRUE, vol, "risk sized")

MaxLots == 3

\* SymbolMeta: the tick metadata and the volume metadata, in whole units.
SizingSymbols ==
    [point : {1}, trade_tick_value : 0..1, trade_tick_size : 1..2,
     volume_min : 0..MaxLots, volume_max : 0..MaxLots, volume_step : 0..MaxLots]

InitSizing ==
    /\ IdleExec(DefaultConfig) /\ IdleSched /\ IdleRisk /\ IdleEngine
    /\ shared = Shared0 /\ notifier = Notifier0
    /\ \E equity \in 0..MaxLots, stop_points \in 0..2, symbol \in SizingSymbols :
         pure = [fn |-> "compute_volume", equity |-> equity, risk_per_trade |-> 1,
                 stop_points |-> stop_points, symbol |-> symbol, result |-> <<>>]

ComputeVolume ==
    /\ pure.fn = "compute_volume" /\ pure.result = <<>>
    /\ pure' = [pure EXCEPT !.result = <<compute_volume(pure.equity, pure.risk_per_trade,
                                                        pure.stop_points, pure.symbol)>>]
    /\ UNCHANGED <<execVars, schedVars, riskVars, engVars, shared, notifier>>

SpecSizing == InitSizing /\ [][ComputeVolume]_vars

\* C23: a volume compute_volume returns as ok lies between volume_min and
\* volume_max and is an exact multiple of volume_step, whatever the equity,
\* the stop distance and the symbol's volume metadata (each of the three
\* taken where the metadata gives it, and with volume_min <= volume_max).
C23_VolumeOnGrid ==
    (/\ pure.fn = "compute_volume" /\ pure.result # <<>>
     /\ pure.result[1].ok
     /\ pure.symbol.volume_max > 0 => pure.symbol.volume_min <= pure.symbol.volume_max) =>
        LET v == pure.result[1].volume
            s == pure.symbol
        IN  /\ s.volume_min > 0 => ~Less(v, Frac(s.volume_min, 1))
            /\ s.volume_max > 0 => ~Less(Frac(s.volume_max, 1), v)
            /\ s.volume_step > 0 => v.n % (v.d * s.volume_step) = 0

(***************************************************************************)
(* execution/idempotency.py: make_idempotency_key on pairs of tuples.      *)
(***************************************************************************)
\* The tuples the engine builds keys from: a symbol of the universe (a name
\* the broker or the configuration gives, here also one that contains the
\* separator), a timeframe code of TIMEFRAMES, the ISO text of a candle
\* close, the name of a registered strategy and a side.
KeyTuples ==
    {"EURUSD", "EURUSD|H1"} \X {"H1", "M5"} \X {iso_utc(0), iso_utc(1)}
        \X StrategyNames \X Side

KeyOf(t) == make_idempotency_key(t[1], t[2], t[3], t[4], t[5])

InitKey ==
    /\ IdleExec(DefaultConfig) /\ IdleSched /\ IdleRisk /\ IdleEngine
    /\ shared = Shared0 /\ notifier = Notifier0
    /\ \E a \in KeyTuples, b \in KeyTuples :
         pure = [fn |-> "make_idempotency_key", a |-> a, b |-> b, result |-> <<>>]

\* The key of a, the key of b, and the key of a once more.
MakeIdempotencyKey ==
    /\ pure.fn = "make_idempotency_key" /\ pure.result = <<>>
    /\ pure' = [pure EXCEPT !.result = <<KeyOf(pure.a), KeyOf(pure.b), KeyOf(pure.a)>>]
    /\ UNCHANGED <<execVars, schedVars, riskVars, engVars, shared, notifier>>

SpecKey == InitKey /\ [][MakeIdempotencyKey]_vars

RECURSIVE SumOf(_)
SumOf(xs) == IF xs = <<>> THEN 0 ELSE Head(xs) + SumOf(Tail(xs))

Products(xs, ys) == [i \in 1..Len(xs) |-> xs[i] * ys[i]]

\* n^2 times the covariance of xs and ys.
Covariance(xs, ys) == Len(xs) * SumOf(Products(xs, ys)) - SumOf(xs) * SumOf(ys)

\* abs(float(corr.loc[sym, s2])) > max_abs_corr for the Pearson correlation
\* of the two series; with a constant series the correlation is NaN, which
\* fillna(0.0) turns into 0.
CorrExceeds(xs, ys, max_abs_corr) ==
    LET cxy == Covariance(xs, ys)
        vx == Covariance(xs, xs)
        vy == Covariance(ys, ys)
    IN  IF vx = 0 \/ vy = 0 THEN 0 > max_abs_corr
        ELSE cxy * cxy * 100 * 100 > max_abs_corr * max_abs_corr * vx * vy

CorrelationDecision(selected, excluded) == [selected |-> selected, excluded |-> excluded]

InSeq(x, xs) == \E i \in 1..Len(xs) : xs[i] = x

\* for sym in ranked_symbols: ... (correlation.py 29-40); an excluded symbol
\* is recorded with the selected symbol its reason names.
RECURSIVE GreedyLoop(_, _, _, _, _, _)
GreedyLoop(rest, selected, excluded, series, max_abs_corr, top_n) ==
    IF rest = <<>> \/ Len(selected) >= top_n
    THEN CorrelationDecision(selected, excluded)
    ELSE LET sym == Head(rest)
             hits == {i \in 1..Len(selected) :
                        CorrExceeds(series[sym], series[selected[i]], max_abs_corr)}
         IN  IF hits = {}
             THEN GreedyLoop(Tail(rest), Append(selected, sym), excluded,
                             series, max_abs_corr, top_n)
             ELSE LET first == CHOOSE i \in hits : \A j \in hits : i <= j
                      reason == [symbol |-> sym, corr_with |-> selected[first]]
                  IN  GreedyLoop(Tail(rest), selected,
                                 {e \in excluded : e.symbol # sym} \cup {reason},
                                 series, max_abs_corr, top_n)

\* if len(selected) < top_n: fill with the remaining symbols in rank order
\* (correlation.py 43-49).
RECURSIVE FillUp(_, _, _)
FillUp(rest, selected, top_n) ==
    IF rest = <<>> \/ Len(selected) >= top_n THEN selected
    ELSE IF InSeq(Head(rest), selected) THEN FillUp(Tail(rest), selected, top_n)
    ELSE FillUp(Tail(rest), Append(selected, Head(rest)), top_n)

\* ranked_symbols[:top_n] for top_n >= 0.
Prefix(xs, n) == IF Len(xs) <= n THEN xs ELSE SubSeq(xs, 1, n)

\* The ranked list returned as it is.
no_correlation_filter(ranked_symbols, returns_df, max_abs_corr, top_n) ==
    CorrelationDecision(ranked_symbols, {})

greedy_correlation_filter(ranked_symbols, returns_df, max_abs_corr, top_n) ==
    IF returns_df.empty \/ Len(ranked_symbols) <= 1
    THEN CorrelationDecision(Prefix(ranked_symbols, top_n), {})
    ELSE LET d == GreedyLoop(ranked_symbols, <<>>, {}, returns_df.series,
                             max_abs_corr, top_n)
         IN  CorrelationDecision(FillUp(ranked_symbols, d.selected, top_n), d.excluded)

MaxTopN == 3

RankSymbols == {"A", "B", "C"}

\* t, -t (up to a shift), a series uncorrelated with both, a constant one.
Rising == <<0, 1, 2>>

Falling == <<2, 1, 0>>

ReturnSeries == {Rising, Falling, <<0, 1, 0>>, <<1, 1, 1>>}

\* Rankings: sequences of distinct symbols.
Rankings ==
    {<<>>} \cup {<<a>> : a \in RankSymbols}
    \cup {r \in RankSymbols \X RankSymbols : r[1] # r[2]}
    \cup {r \in RankSymbols \X RankSymbols \X RankSymbols :
            r[1] # r[2] /\ r[1] # r[3] /\ r[2] # r[3]}

DefaultMaxAbsCorr == 85

InitCorrelation ==
    /\ IdleExec(DefaultConfig) /\ IdleSched /\ IdleRisk /\ IdleEngine
    /\ shared = Shared0 /\ notifier = Notifier0
    /\ \E ranked \in Rankings, series \in [RankSymbols -> ReturnSeries],
          empty \in BOOLEAN, top_n \in 1..MaxTopN :
         pure = [fn |-> "greedy_correlation_filter", ranked |-> ranked,
                 returns_df |-> [empty |-> empty, series |-> series],
                 max_abs_corr |-> DefaultMaxAbsCorr, top_n |-> top_n,
                 result |-> <<>>]

GreedyCorrelationFilter ==
    /\ pure.fn = "greedy_correlation_filter" /\ pure.result = <<>>
    /\ pure' = [pure EXCEPT !.result =
                  <<greedy_correlation_filter(pure.ranked, pure.returns_df,
                                              pure.max_abs_corr, pure.top_n)>>]
    /\ UNCHANGED <<execVars, schedVars, riskVars, engVars, shared, notifier>>

SpecCorrelation == InitCorrelation /\ [][GreedyCorrelationFilter]_vars

\* The scenario of the test: A = B = t, C = -t, ranked A, B, C, top_n = 2.
CorrelationScenario ==
    /\ pure.fn = "greedy_correlation_filter"
    /\ pure.ranked = <<"A", "B", "C">>
    /\ ~pure.returns_df.empty
    /\ pure.returns_df.series = [s \in RankSymbols |->
                                   IF s = "C" THEN Falling ELSE Rising]
    /\ pure.max_abs_corr = DefaultMaxAbsCorr /\ pure.top_n = 2

\* C24: in the scenario the selected list contains A, exactly one of B and
\* C is left out of it, and that one is excluded with a reason that names
\* A; and for every input the top-ranked symbol is selected and selected has
\* at most top_n entries.
C24_CorrelationFilter ==
    (pure.fn = "greedy_correlation_filter" /\ pure.result # <<>>) =>
        LET d == pure.result[1]
            dropped == {s \in {"B", "C"} : ~InSeq(s, d.selected)}
        IN  /\ pure.ranked # <<>> => InSeq(pure.ranked[1], d.selected)
            /\ Len(d.selected) <= pure.top_n
            /\ CorrelationScenario =>
                 /\ InSeq("A", d.selected)
                 /\ Cardinality(dropped) = 1
                 /\ \A s \in dropped :
                      [symbol |-> s, corr_with |-> "A"] \in d.excluded

\* The scenario has been run through the filter.
C24_Witness ==
    /\ CorrelationScenario /\ pure.result # <<>>
    /\ pure.result[1].selected = <<"A", "B">>
    /\ [symbol |-> "C", corr_with |-> "A"] \in pure.result[1].excluded

(***************************************************************************)
(* Specification SpecTicks: the iterations of the engine loop against a    *)
(* broker whose bars only move forward, with the UI's commands in between. *)
(* sched.returned lists the candle closes _run_cycle was called for; what  *)
(* a cycle does is in the specifications of the cycle.                     *)
(***************************************************************************)
\* get_candles(anchor, timeframe, 3) once bar k + 2 is the forming bar: the
\* three latest bars in ascending order.
BarFrame(k) ==
    [none |-> FALSE,
     time_utc |-> [i \in 1..3 |-> (k + i - 1) * timeframe_seconds(Timeframe)]]

\* The frame is not older than the one the broker returned before.
NotOlder(df, before) ==
    IF before.none \/ df.none THEN TRUE
    ELSE df.time_utc[3] >= before.time_utc[3]

\* One iteration of the loop of _run with a connector and an anchor symbol:
\* the scheduler is polled and, when it returns a close time, _run_cycle is
\* called for it.
LoopIteration ==
    /\ eng.pc = "idle"
    /\ sched.npolls < MaxPolls
    /\ \E df \in {NoFrame} \cup {BarFrame(k) : k \in 0..MaxBar} :
         /\ NotOlder(df, sched.df)
         /\ LET r == poll(sched.last, df) IN
            sched' = [last |-> r.last, result |-> r.result,
                      df |-> IF df.none THEN sched.df ELSE df,
                      returned |-> IF r.result = NoneInt THEN sched.returned
                                   ELSE Append(sched.returned, r.result),
                      npolls |-> sched.npolls + 1]
    /\ UNCHANGED <<execVars, riskVars, engVars, sideVars>>

NextTicks == Command \/ ApplyConfig \/ LoopIteration

SpecTicks == InitRun /\ [][NextTicks]_vars

\* C26: over an engine run the candle closes for which a cycle is run are
\* strictly increasing, whatever commands the UI sends between the ticks.
C26_CycleClosesIncreasing ==
    \A i, j \in 1..Len(sched.returned) :
        i < j => sched.returned[i] < sched.returned[j]

(***************************************************************************)
(* Specification SpecCap: cycles in which two selected symbols give an     *)
(* entry signal at once, under a total cap of one or two positions.  The   *)
(* account is flat when the run starts and every filled open order becomes *)
(* a position of the bot.                                                  *)
(***************************************************************************)
CapConfigs ==
    {[DefaultConfig EXCEPT !.trading_enabled = TRUE, !.max_attempts = 1,
                           !.max_open_positions_total = cap] : cap \in 1..2}

InitCap ==
    /\ cfg \in CapConfigs
    /\ decisions = <<>>
    /\ orders = <<>>
    /\ positions = {}
    /\ lastInsert = NoInsert
    /\ lastCall = NoCall
    /\ ncalls = 0
    /\ IdleSched /\ IdleSide
    /\ eng = Engine0 /\ engObs = NoEngObs /\ hist = Hist0
    /\ store \in {[Store0 EXCEPT !.heartbeat = hb] : hb \in EngineHeartbeats}
    /\ risk = load_from_heartbeat(store.heartbeat)
    /\ riskObs = NoRiskObs
    /\ clock = 0

CapCycleStart == CycleStartOn({100}, {TRUE}, {<<"EURUSD", "GBPUSD">>, <<"GBPUSD">>})

CapProcessSymbol == ProcessSymbolOn(RunFeatures, {"ok"})

CapSyncDeals == SyncDealsOn({<<>>}, {TRUE})

NextCap == CapCycleStart \/ CapProcessSymbol \/ CapSyncDeals

SpecCap == InitCap /\ [][NextCap]_vars

\* C27: the number of open positions with the bot's magic number never
\* exceeds max_open_positions_total, in whatever cycle the entries come.
C27_OpenPositionsCapped ==
    Cardinality({p \in positions : p.magic = BotMagic}) <= cfg.max_open_positions_total

(***************************************************************************)
(* Specification SpecDecide: cycles over one selected symbol with trading  *)
(* switched on or off and close_on_exit_signal set or not, from a book     *)
(* with or without a position of the bot.                                  *)
(***************************************************************************)
DecideConfigs ==
    {[DefaultConfig EXCEPT !.trading_enabled = te, !.close_on_exit_signal = ce,
                           !.max_attempts = 1, !.strategy_mode = "rule_based"] :
        te \in BOOLEAN, ce \in BOOLEAN}

InitDecide ==
    /\ cfg \in DecideConfigs
    /\ decisions = <<>>
    /\ orders = <<>>
    /\ positions \in {{}, {Position(1, "EURUSD", LONG, BotMagic)}}
    /\ lastInsert = NoInsert
    /\ lastCall = NoCall
    /\ ncalls = 0
    /\ IdleSched /\ IdleSide
    /\ eng = Engine0 /\ engObs = NoEngObs /\ hist = Hist0
    /\ store \in {[Store0 EXCEPT !.heartbeat = hb] : hb \in EngineHeartbeats}
    /\ risk = load_from_heartbeat(store.heartbeat)
    /\ riskObs = NoRiskObs
    /\ clock = 0

DecideCycleStart == CycleStartOn({100}, {TRUE}, {<<"EURUSD">>})

DecideProcessSymbol == ProcessSymbolOn(FeatureSets, {"ok"})

DecideSyncDeals == SyncDealsOn({<<>>}, {TRUE})

NextDecide == Command \/ DecideCycleStart \/ DecideProcessSymbol \/ DecideSyncDeals

SpecDecide == InitDecide /\ [][NextDecide]_vars

\* C28: when the processing of a selected symbol that reached the strategy
\* selection ends, the store holds a decision for that symbol and that
\* cycle's candle close, whatever branch was taken.
C28_EveryDecisionRecorded ==
    engObs.symbol # None => StoredFor(engObs.symbol, engObs.candle) # {}

(***************************************************************************)
(* Specification SpecStreak: one RiskManager given batch after batch of    *)
(* new deals within one local day; pure.deals is every deal handed to      *)
(* on_new_deals so far, in order.                                          *)
(***************************************************************************)
StreakDealKinds == DealKinds \cup {Deal(BotMagic, "OUT", <<5>>)}

StreakDealLists == UNION {[1..n -> StreakDealKinds] : n \in 0..MaxDeals}

InitStreak ==
    /\ IdleExec(DefaultConfig) /\ IdleSched /\ IdleEngine
    /\ shared = Shared0 /\ notifier = Notifier0
    /\ risk \in LoadedRiskStates
    /\ riskObs = NoRiskObs
    /\ clock = 0
    /\ pure = [fn |-> "on_new_deals", deals |-> <<>>, batch |-> <<>>,
               before |-> risk, result |-> <<>>]

\* self._risk.on_new_deals(new_deals, magic_number=...)
StreakOnNewDeals ==
    /\ Len(pure.deals) < MaxStreak
    /\ \E deals \in StreakDealLists :
         /\ risk' = on_new_deals(risk, cfg, deals, cfg.magic_number, clock)
         /\ pure' = [pure EXCEPT !.deals = @ \o deals, !.batch = deals,
                                 !.before = risk, !.result = <<Len(deals)>>]
    /\ UNCHANGED <<riskObs, clock, execVars, schedVars, engVars, shared, notifier>>

SpecStreak == InitStreak /\ [][StreakOnNewDeals]_vars

\* The number of most recent consecutive OUT deals of the bot's magic number
\* with negative profit.
RECURSIVE TrailingLosses(_)
TrailingLosses(deals) ==
    IF deals = <<>> THEN 0
    ELSE LET d == deals[Len(deals)]
             earlier == SubSeq(deals, 1, Len(deals) - 1)
         IN  IF d.magic # BotMagic \/ d.entry # "OUT" THEN TrailingLosses(earlier)
             ELSE IF d.profit # <<>> /\ d.profit[1] < 0
                  THEN 1 + TrailingLosses(earlier)
                  ELSE 0

\* C29: after any sequence of on_new_deals calls loss_streak is the number
\* of most recent consecutive losing OUT deals of the bot, and a batch
\* without an OUT deal leaves loss_streak and cooloff_until_utc as they were.
C29_LossStreakCountsBotLosses ==
    pure.fn = "on_new_deals" =>
        /\ risk.loss_streak = TrailingLosses(pure.deals)
        /\ (\A i \in 1..Len(pure.batch) : pure.batch[i].entry # "OUT") =>
              /\ risk.loss_streak = pure.before.loss_streak
              /\ risk.cooloff_until_utc = pure.before.cooloff_until_utc


(***************************************************************************)
(* Specification SpecWindows: the windows of the broker's deal history     *)
(* that _sync_deals asks for over the cycles of one run, when list_deals   *)
(* may raise, a cycle may end in an exception before _sync_deals is        *)
(* reached, and configurations are applied between cycles.  The clock      *)
(* does not run backwards.                                                 *)
(***************************************************************************)
WindowsCycleStart == CycleStartOn({100}, {TRUE}, {<<>>})

WindowsSyncDeals == SyncDealsListing({<<>>}, {TRUE}, BOOLEAN, BOOLEAN)

WindowsCycleError == CycleErrorOn({TRUE})

NextWindows ==
    ApplyConfig \/ WindowsCycleStart \/ WindowsSyncDeals \/ WindowsCycleError

SpecWindows == InitRun /\ [][NextWindows]_vars

\* C30: _deals_sync_from_utc is what _connect_or_wait set until list_deals
\* first answers, then the end of the latest answered query minus 5 minutes;
\* a list_deals that raises leaves it unchanged with the error at the head
\* of _errors, and the query after it asks from the same start.  Each
\* answered window overlaps the one answered before it, so the windows cover
\* everything from the start of the first to the end of the latest.
C30_DealWindowsCover ==
    /\ hist.window = <<>> =>
         eng.deals_sync_from = hist.origin - SyncLookbackMinutes
    /\ hist.window # <<>> =>
         eng.deals_sync_from = hist.window[2] - SyncOverlapMinutes
    /\ hist.listed = "raised" =>
         /\ eng.deals_sync_from = hist.asked[1]
         /\ eng.errors # <<>>
         /\ eng.pc = "idle" => Head(eng.errors) = eng.cycle
    /\ (hist.after = "raised" /\ hist.prior # <<>>) => hist.asked[1] = hist.prior[1]
    /\ hist.overlapping
    /\ hist.covered # <<>> =>
         /\ hist.covered[1] = hist.origin - SyncLookbackMinutes
         /\ hist.covered[2] = hist.window[2]
         /\ hist.covered[1] <= hist.covered[2]

\* A query is answered after one that raised, which came after an answered
\* one: it asks again from the start the failed query had.
C30_Witness ==
    /\ hist.listed = "ok"
    /\ hist.after = "raised"
    /\ hist.asked = hist.window
    /\ hist.asked[1] = hist.prior[1]
    /\ hist.covered[1] < hist.asked[1]
    /\ hist.asked[1] < hist.covered[2]

(***************************************************************************)
(* Specification SpecPartial: reconciles over overlapping windows of the   *)
(* broker's deal history in which TradeRepo.insert_deals may raise at any  *)
(* deal of the batch.  The connection is in autocommit mode and            *)
(* insert_deals opens no transaction (persistence/db.py, repos.py), so the *)
(* rows inserted before the failing one stay.                              *)
(***************************************************************************)

\* TradeRepo.insert_deals raising at the k-th deal of the batch: the deals
\* before it went through INSERT OR IGNORE one by one, each statement
\* committed on its own.
insert_deals_raising(trades, deals, k) ==
    insert_deals(trades, SubSeq(deals, 1, k - 1)).trades

\* _sync_deals when list_deals answers and insert_deals raises at a deal:
\* _deals_sync_from_utc is already advanced, the exception leaves
\* _sync_deals before on_new_deals, and the except clause of _run_cycle
\* records it; the heartbeat of the cycle is not stored.
SyncDealsInsertRaises(batches) ==
    /\ eng.pc = "symbols"
    /\ eng.todo = <<>>
    /\ \E deals \in batches :
         \E k \in 1..Len(deals) :
            \E r \in {record_error(eng, store, eng.cycle, TRUE)} :
               /\ store' = [r.store EXCEPT
                               !.trades = insert_deals_raising(store.trades, deals, k)]
               /\ eng' = [r.eng EXCEPT
                             !.pc = "idle",
                             !.deals_sync_from =
                                 deals_sync_from_after(eng.deals_sync_from, clock,
                                                       TRUE)]
               /\ hist' = Queried(hist, eng.deals_sync_from, clock, TRUE)
    /\ engObs' = [NoEngObs EXCEPT !.candle = eng.candle, !.raised = TRUE,
                                  !.stored = TRUE]
    /\ riskObs' = NoRiskObs
    /\ lastInsert' = NoInsert
    /\ UNCHANGED <<risk, clock, cfg, decisions, orders, positions, lastCall, ncalls,
                   schedVars, sideVars>>

PartialCycleStart == CycleStartOn({100}, {TRUE}, {<<>>})

PartialSyncDeals == SyncDealsOn(RunBatches, {TRUE})

PartialInsertRaises == SyncDealsInsertRaises(RunBatches)

NextPartial == PartialCycleStart \/ PartialSyncDeals \/ PartialInsertRaises

SpecPartial == InitRun /\ [][NextPartial]_vars

\* How often ticket t was given to on_new_deals.
TimesSeen(t) == Cardinality({i \in 1..Len(hist.seen) : hist.seen[i] = t})

\* C31: when a reconcile has ended, also one in which insert_deals raised
\* part-way, every deal of the bot stored in trades has been given to
\* on_new_deals exactly once.
C31_PersistedDealsFedOnce ==
    eng.pc = "idle" =>
        \A i \in 1..Len(store.trades) : TimesSeen(store.trades[i]) = 1

(***************************************************************************)
(* Specification SpecExit: cycles on a demo account over one selected      *)
(* symbol on which the terminal shows no position, a position of the bot,  *)
(* a position without magic number or a position of another expert, with   *)
(* trading enabled and close_on_exit_signal set or not.                    *)
(***************************************************************************)
ExitConfigs ==
    {[DefaultConfig EXCEPT !.trading_enabled = TRUE, !.close_on_exit_signal = ce,
                           !.max_attempts = 1, !.strategy_mode = "rule_based"] :
        ce \in BOOLEAN}

\* positions_get when the engine starts.
ExitBooks ==
    {{}, {Position(1, "EURUSD", LONG, BotMagic)}, {Position(1, "EURUSD", SHORT, BotMagic)},
     {Position(1, "EURUSD", LONG, NoneInt)}, {Position(1, "EURUSD", LONG, ForeignMagic)}}

InitExit ==
    /\ cfg \in ExitConfigs
    /\ decisions = <<>>
    /\ orders = <<>>
    /\ positions \in ExitBooks
    /\ lastInsert = NoInsert
    /\ lastCall = NoCall
    /\ ncalls = 0
    /\ IdleSched /\ IdleSide
    /\ eng = Engine0 /\ engObs = NoEngObs /\ hist = Hist0
    /\ store \in {[Store0 EXCEPT !.heartbeat = hb] : hb \in EngineHeartbeats}
    /\ risk = load_from_heartbeat(store.heartbeat)
    /\ riskObs = NoRiskObs
    /\ clock = 0

ExitCycleStart == CycleStartOn({100}, {TRUE}, {<<"EURUSD">>})

ExitProcessSymbol == ProcessSymbolOn(FeatureSets, {"ok"})

ExitSyncDeals == SyncDealsOn({<<>>}, {TRUE})

NextExit == Command \/ ExitCycleStart \/ ExitProcessSymbol \/ ExitSyncDeals

SpecExit == InitExit /\ [][NextExit]_vars

\* The positions with the bot's magic number on the symbol in the list the
\* cycle fetched.
BotHeld(sym) == {p \in eng.view : p.symbol = sym /\ p.magic = cfg.magic_number}

\* C32: after a FLAT signal tagged exit in a cycle that is not manually
\* paused, one close was sent for the bot's position on the symbol, with its
\* id and the opposite side, if close_on_exit_signal is set and the bot holds
\* one; otherwise no order was sent for the symbol.
C32_ExitClosesHeldPosition ==
    (engObs.symbol # None /\ engObs.signal = Signal(FLAT, TRUE)
        /\ ~engObs.manual_paused) =>
        IF cfg.close_on_exit_signal /\ BotHeld(engObs.symbol) # {}
        THEN /\ engObs.placed = 1
             /\ \E p \in BotHeld(engObs.symbol) :
                  LET req == orders[Len(orders)]
                  IN  /\ req.action = "close"
                      /\ req.symbol = engObs.symbol
                      /\ req.position_id = p.position_id
                      /\ req.side = CloseSide(p)
        ELSE engObs.placed = 0

(***************************************************************************)
(* Specification SpecRank: the selection step of Ranker.rank on a ranked   *)
(* list, with the correlation filter enabled or not.                       *)
(***************************************************************************)

\* decision.selected.index(sym)
IndexOf(xs, x) == CHOOSE i \in 1..Len(xs) : xs[i] = x /\ \A j \in 1..(i - 1) : xs[j] # x

\* selected = [r for r in ranked if r.symbol in selected_syms];
\* selected.sort(key=lambda r: decision.selected.index(r.symbol))
SortedByIndex(ranked, selected) ==
    LET kept == SelectSeq(ranked, LAMBDA s : InSeq(s, selected))
        Before(s) == {i \in 1..Len(kept) :
                        IndexOf(selected, kept[i]) < IndexOf(selected, s)}
    IN  [k \in 1..Len(kept) |->
            CHOOSE s \in {kept[i] : i \in 1..Len(kept)} : Cardinality(Before(s)) = k - 1]

\* RankOutput.selected and the symbols excluded.update() received.
RankOutput(ranked, selected, excluded) ==
    [ranked |-> ranked, selected |-> selected, excluded |-> excluded]

\* Ranker.rank from `selected = ranked` on (ranker.py 153-171).
rank_selected(ranked, returns_df, enabled, max_abs_corr, top_n) ==
    IF enabled /\ Len(ranked) > 1
    THEN LET decision == greedy_correlation_filter(ranked, returns_df, max_abs_corr,
                                                   top_n)
         IN  [decision |-> <<decision>>,
              out |-> RankOutput(ranked, SortedByIndex(ranked, decision.selected),
                                 {e.symbol : e \in decision.excluded})]
    ELSE [decision |-> <<>>, out |-> RankOutput(ranked, Prefix(ranked, top_n), {})]

InitRank ==
    /\ IdleExec(DefaultConfig) /\ IdleSched /\ IdleRisk /\ IdleEngine
    /\ shared = Shared0 /\ notifier = Notifier0
    /\ \E ranked \in Rankings, series \in [RankSymbols -> ReturnSeries],
          empty \in BOOLEAN, enabled \in BOOLEAN, top_n \in 1..MaxTopN :
         pure = [fn |-> "rank", ranked |-> ranked,
                 returns_df |-> [empty |-> empty, series |-> series],
                 enabled |-> enabled,
                 max_abs_corr |-> DefaultMaxAbsCorr, top_n |-> top_n,
                 result |-> <<>>]

Rank ==
    /\ pure.fn = "rank" /\ pure.result = <<>>
    /\ pure' = [pure EXCEPT !.result =
                  <<rank_selected(pure.ranked, pure.returns_df, pure.enabled,
                                  pure.max_abs_corr, pure.top_n)>>]
    /\ UNCHANGED <<execVars, schedVars, riskVars, engVars, shared, notifier>>

SpecRank == InitRank /\ [][Rank]_vars

\* xs keeps the order of ys: its entries are entries of ys at increasing
\* positions.
Subsequence(xs, ys) ==
    /\ \A i \in 1..Len(xs) : InSeq(xs[i], ys)
    /\ \A i, j \in 1..Len(xs) : i < j => IndexOf(ys, xs[i]) < IndexOf(ys, xs[j])

\* C33: the selected list of greedy_correlation_filter and the selected list
\* of Ranker.rank are subsequences of the ranked list, also when symbols
\* were added as padding.
C33_SelectedKeepsScoreOrder ==
    (pure.fn = "rank" /\ pure.result # <<>>) =>
        LET r == pure.result[1]
        IN  /\ Subsequence(r.out.selected, pure.ranked)
            /\ r.decision # <<>> => Subsequence(r.decision[1].selected, pure.ranked)

\* C34: no symbol is both selected and excluded, in the result of the
\* correlation filter and in the result of Ranker.rank.
C34_SelectedNotExcluded ==
    (pure.fn = "rank" /\ pure.result # <<>>) =>
        LET r == pure.result[1]
        IN  /\ \A s \in r.out.excluded : ~InSeq(s, r.out.selected)
            /\ r.decision # <<>> =>
                 \A e \in r.decision[1].excluded : ~InSeq(e.symbol, r.decision[1].selected)

(***************************************************************************)
(* engine/bot_engine.py: _refresh_universe.  Symbol names are taken from a *)
(* small vocabulary on which lower(), upper(), startswith(), len() and the *)
(* order of sorted() are tabulated.                                        *)
(***************************************************************************)
\* Names the terminal may list, and names the configuration may prefer.
BrokerNames == {"EURUSD", "EURUSD.m", "GBPUSD", "XAUUSD"}

PreferredNames == {"EURUSD", "eurusd", "GBPUSD"}

\* str.lower()
lower(s) ==
    CASE s = "EURUSD" -> "eurusd" [] s = "eurusd" -> "eurusd"
      [] s = "EURUSD.m" -> "eurusd.m" [] s = "GBPUSD" -> "gbpusd"
      [] s = "XAUUSD" -> "xauusd"

\* str.upper()
upper(s) ==
    CASE s = "EURUSD" -> "EURUSD" [] s = "eurusd" -> "EURUSD"
      [] s = "EURUSD.m" -> "EURUSD.M" [] s = "GBPUSD" -> "GBPUSD"
      [] s = "XAUUSD" -> "XAUUSD"

\* s.startswith(p) on the upper-case names.
startswith(s, p) == s = p \/ (s = "EURUSD.M" /\ p = "EURUSD")

\* len(s)
NameLen(s) == IF s = "EURUSD.m" THEN 8 ELSE 6

\* The names in the order of sorted().
NameOrder == <<"EURUSD", "EURUSD.m", "GBPUSD", "XAUUSD", "eurusd">>

\* SymbolMeta, reduced to what _refresh_universe reads.
SymbolMeta(name, asset_class, trade_allowed) ==
    [name |-> name, asset_class |-> asset_class, trade_allowed |-> trade_allowed]

\* _classify: the asset class the connector gives a name.
AssetClassOf(name) == IF name = "XAUUSD" THEN "metals" ELSE "forex"

\* BotEngine._resolve_symbol: the exact name or alias, else a match without
\* regard to case, else the shortest discovered name that starts with the
\* canonical one; <<>> when there is none.
resolve_symbol(canonical, discovered, aliases) ==
    LET candidates == <<canonical>> \o aliases
        exact == {i \in 1..Len(candidates) : candidates[i] \in discovered}
        nocase == {i \in 1..Len(candidates) :
                     \E s \in discovered : lower(s) = lower(candidates[i])}
        matches == {s \in discovered : startswith(upper(s), upper(canonical))}
    IN  IF exact # {}
        THEN <<candidates[CHOOSE i \in exact : \A j \in exact : i <= j]>>
        ELSE IF nocase # {}
        THEN LET c == candidates[CHOOSE i \in nocase : \A j \in nocase : i <= j]
             IN  <<CHOOSE s \in discovered : lower(s) = lower(c)>>
        ELSE IF matches # {}
        THEN <<CHOOSE s \in matches : \A t \in matches : NameLen(s) <= NameLen(t)>>
        ELSE <<>>

RECURSIVE Resolved(_, _, _)
\* universe after the loops over preferred: the resolved names in the order
\* of the preferred list.
Resolved(preferred, discovered, aliases) ==
    IF preferred = <<>> THEN <<>>
    ELSE resolve_symbol(Head(preferred), discovered,
                        IF Head(preferred) \in DOMAIN aliases
                        THEN aliases[Head(preferred)] ELSE <<>>)
         \o Resolved(Tail(preferred), discovered, aliases)

\* sorted(names)[:per_class_limit]
SortedNames(names, limit) ==
    Prefix(SelectSeq(NameOrder, LAMBDA n : n \in names), limit)

RECURSIVE ClassesOf(_)
\* The keys of by_class in insertion order.
ClassesOf(names) ==
    IF names = <<>> THEN <<>>
    ELSE LET rest == ClassesOf(Tail(names))
             cls == AssetClassOf(Head(names))
         IN  <<cls>> \o SelectSeq(rest, LAMBDA c : c # cls)

RECURSIVE AppendNew(_, _, _)
\* for n in names: if n not in universe and n not in extras: extras.append(n)
AppendNew(extras, names, universe) ==
    IF names = <<>> THEN extras
    ELSE AppendNew(IF InSeq(Head(names), universe) \/ InSeq(Head(names), extras)
                   THEN extras ELSE Append(extras, Head(names)),
                   Tail(names), universe)

RECURSIVE Extras(_, _, _, _, _)
\* extras: per class, in the order the classes were first met.
Extras(classes, by_class, extras, universe, per_class_limit) ==
    IF classes = <<>> THEN extras
    ELSE Extras(Tail(classes), by_class,
                AppendNew(extras, SortedNames(by_class[Head(classes)], per_class_limit),
                          universe),
                universe, per_class_limit)

RECURSIVE Extend(_, _, _)
\* for n in extras: if len(universe) >= total_limit: break; universe.append(n)
Extend(universe, extras, total_limit) ==
    IF extras = <<>> \/ Len(universe) >= total_limit THEN universe
    ELSE Extend(Append(universe, Head(extras)), Tail(extras), total_limit)

RECURSIVE Dedup(_, _)
\* [s for s in universe if not (s in seen or seen.add(s))]
Dedup(universe, seen) ==
    IF universe = <<>> THEN <<>>
    ELSE IF Head(universe) \in seen THEN Dedup(Tail(universe), seen)
    ELSE <<Head(universe)>> \o Dedup(Tail(universe), seen \cup {Head(universe)})

\* BotEngine._refresh_universe past the interval test: symbols is what
\* discover_symbols returned, u the universe section of the configuration.
\* The result holds _universe_symbols, _symbol_meta and _anchor_symbol.
refresh_universe(symbols, u) ==
    LET discovered_names == {symbols[i].name : i \in 1..Len(symbols)}
        universe0 == Resolved(u.preferred_symbols, discovered_names, u.aliases)
        listed == SelectSeq(symbols, LAMBDA m : /\ m.asset_class \in u.allowed_classes
                                                /\ m.trade_allowed # "False")
        names == [i \in 1..Len(listed) |-> listed[i].name]
        by_class == [c \in {AssetClassOf(n) : n \in discovered_names} |->
                        {listed[i].name : i \in {j \in 1..Len(listed) :
                                                   listed[j].asset_class = c}}]
        extras == Extras(ClassesOf(names), by_class, <<>>, universe0,
                         u.max_per_class)
        universe1 == IF u.use_symbol_discovery
                     THEN Extend(universe0, extras, u.max_symbols_total)
                     ELSE universe0
        universe == Dedup(universe1, {})
    IN  [universe_symbols |-> universe,
         symbol_meta |-> {symbols[i] : i \in {j \in 1..Len(symbols) :
                                                InSeq(symbols[j].name, universe)}},
         anchor_symbol |-> IF universe = <<>> THEN None ELSE universe[1]]

(***************************************************************************)
(* Specification SpecUniverse: one forced refresh of the universe for what *)
(* the terminal may list and the configuration may prefer.                 *)
(***************************************************************************)
\* symbol_info.trade_allowed as the connector passes it on: a flag or None.
TradeAllowedFlags == {"True", "False", None}

\* discover_symbols: up to two symbols with distinct names.
DiscoveredLists ==
    {<<>>}
    \cup {<<SymbolMeta(n, AssetClassOf(n), t)>> : n \in BrokerNames, t \in TradeAllowedFlags}
    \cup {<<SymbolMeta(n[1], AssetClassOf(n[1]), t1),
             SymbolMeta(n[2], AssetClassOf(n[2]), t2)>> :
            n \in {p \in BrokerNames \X BrokerNames : p[1] # p[2]},
            t1 \in TradeAllowedFlags, t2 \in TradeAllowedFlags}

\* config.universe with the aliases of config/symbols.yaml.
UniverseConfigs ==
    [preferred_symbols : {<<>>} \cup {<<a>> : a \in PreferredNames}
                         \cup {<<a, b>> : a \in {"EURUSD"}, b \in PreferredNames},
     aliases : {<<>>, [a \in {"EURUSD"} |-> <<"EURUSD.m">>]},
     use_symbol_discovery : BOOLEAN,
     allowed_classes : {{"forex", "metals"}},
     max_per_class : {1, 2},
     max_symbols_total : {1, 2}]

InitUniverse ==
    /\ IdleExec(DefaultConfig) /\ IdleSched /\ IdleRisk /\ IdleEngine
    /\ shared = Shared0 /\ notifier = Notifier0
    /\ \E symbols \in DiscoveredLists, u \in UniverseConfigs :
         pure = [fn |-> "refresh_universe", symbols |-> symbols, universe |-> u,
                 result |-> <<>>]

RefreshUniverse ==
    /\ pure.fn = "refresh_universe" /\ pure.result = <<>>
    /\ pure' = [pure EXCEPT !.result =
                  <<refresh_universe(pure.symbols, pure.universe)>>]
    /\ UNCHANGED <<execVars, schedVars, riskVars, engVars, shared, notifier>>

SpecUniverse == InitUniverse /\ [][RefreshUniverse]_vars

\* C35: after a refresh the universe holds no name twice and no symbol whose
\* trade_allowed is false, and the anchor is its first symbol, or None when
\* it is empty.
C35_UniverseTradableDistinct ==
    (pure.fn = "refresh_universe" /\ pure.result # <<>>) =>
        LET r == pure.result[1]
            u == r.universe_symbols
        IN  /\ \A i, j \in 1..Len(u) : u[i] = u[j] => i = j
            /\ \A m \in r.symbol_meta : m.trade_allowed # "False"
            /\ r.anchor_symbol = IF u = <<>> THEN None ELSE u[1]

(***************************************************************************)
(* engine/bot_engine.py _run, _process_commands, _connect_or_wait;         *)
(* main.py and ui/app.py: the engine thread's loop and the threads that    *)
(* stop it.  raising is the set of call sites at which the broker adapter  *)
(* may raise.                                                              *)
(***************************************************************************)
CommandKinds == {"pause", "resume", "quit", "refresh_universe", "apply_config"}

RECURSIVE Drain(_, _, _, _)
\* _process_commands: commands are taken until the queue is empty or a quit
\* command was taken; quit sets the stop event and returns.  A
\* refresh_universe command calls _refresh_universe(force=True) outside any
\* try: with a connector, an exception of discover_symbols leaves
\* _process_commands; without one the refresh returns at once.
Drain(queue, stop, connector, raises) ==
    IF queue = <<>>
    THEN [queue |-> queue, stop |-> stop, raised |-> None, refreshed |-> FALSE]
    ELSE IF Head(queue) = "quit"
    THEN [queue |-> Tail(queue), stop |-> TRUE, raised |-> None, refreshed |-> FALSE]
    ELSE IF Head(queue) = "refresh_universe" /\ connector
    THEN IF raises
         THEN [queue |-> Tail(queue), stop |-> stop,
               raised |-> "refresh_universe command", refreshed |-> FALSE]
         ELSE [Drain(Tail(queue), stop, connector, raises) EXCEPT !.refreshed = TRUE]
    ELSE Drain(Tail(queue), stop, connector, raises)

\* The stop event is set by the signal handler of main.py or by the app's
\* on_shutdown_request.
RequestStop ==
    /\ shared.run.process = "running"
    /\ ~shared.run.stop
    /\ shared' = [shared EXCEPT !.run.stop = TRUE]
    /\ UNCHANGED <<execVars, schedVars, riskVars, engVars, notifier, pure>>

\* TradingBotApp.action_quit_app: enqueue quit, request_stop, exit.
QuitApp ==
    /\ shared.run.process = "running"
    /\ shared.run.ui = "running"
    /\ shared' = [shared EXCEPT !.run.queue = Append(@, "quit"),
                                !.run.stop = TRUE,
                                !.run.ui = "exited"]
    /\ UNCHANGED <<execVars, schedVars, riskVars, engVars, notifier, pure>>

\* BotEngine.enqueue from the UI, on a queue that exists.
Enqueue ==
    /\ shared.run.process = "running"
    /\ shared.run.ui = "running"
    /\ Len(shared.run.queue) < MaxCalls
    /\ \E kind \in CommandKinds \ {"quit"} :
         shared' = [shared EXCEPT !.run.queue = Append(@, kind)]
    /\ UNCHANGED <<execVars, schedVars, riskVars, engVars, notifier, pure>>

\* main(): without UI it returns once engine.join() has returned; with the
\* UI it returns as soon as app.run() has, without joining the engine
\* thread, which is a daemon thread and ends with the process wherever it
\* is.
MainReturns ==
    /\ shared.run.process = "running"
    /\ IF shared.run.ui = "headless"
       THEN shared.run.pc \in {"stopped", "dead"}
       ELSE shared.run.ui = "exited"
    /\ shared' = [shared EXCEPT
                     !.run.process = "exited",
                     !.run.pc = IF @ \in {"stopped", "dead"} THEN @ ELSE "killed"]
    /\ UNCHANGED <<execVars, schedVars, riskVars, engVars, notifier, pure>>

\* `while not self._stop.is_set()`
LoopTest ==
    /\ shared.run.process = "running"
    /\ shared.run.pc = "top"
    /\ shared.run.stop \/ shared.run.iterations < MaxPolls
    /\ shared' = [shared EXCEPT
                     !.run.pc = IF shared.run.stop THEN "stopping" ELSE "commands",
                     !.run.iterations = IF shared.run.stop THEN @ ELSE @ + 1]
    /\ UNCHANGED <<execVars, schedVars, riskVars, engVars, notifier, pure>>

\* self._process_commands(); a refresh that ran leaves an anchor symbol or,
\* with an empty universe, none.
ProcessCommands(raising) ==
    /\ shared.run.process = "running"
    /\ shared.run.pc = "commands"
    /\ \E raises \in {FALSE} \cup {"refresh_universe command" \in raising} :
         \E d \in {Drain(shared.run.queue, shared.run.stop, shared.run.connector, raises)} :
            \E anchor \in IF d.refreshed THEN BOOLEAN ELSE {shared.run.anchor} :
               shared' = [shared EXCEPT
                            !.run.queue = d.queue,
                            !.run.stop = d.stop,
                            !.run.raised = d.raised,
                            !.run.anchor = anchor,
                            !.run.pc = IF d.raised = None THEN "body" ELSE "dead"]
    /\ UNCHANGED <<execVars, schedVars, riskVars, engVars, notifier, pure>>

\* The rest of the loop body up to the call of _run_cycle: without a
\* connector _connect_or_wait (which catches what it raises), without an
\* anchor _refresh_universe(force=True), else the scheduler's poll.
LoopBody(raising) ==
    /\ shared.run.process = "running"
    /\ shared.run.pc = "body"
    /\ \E outcome \in {"ok", "none"} \cup raising :
         LET r == shared.run
             begun == r.connector /\ r.anchor /\ outcome = "ok"
             escapes == IF ~r.connector THEN FALSE
                        ELSE IF ~r.anchor THEN outcome = "refresh_universe"
                        ELSE outcome = "poll"
         IN  /\ outcome \in raising => (~r.connector \/ escapes)
             /\ r.cycles < MaxCandle \/ ~begun
             /\ shared' = [shared EXCEPT
                  !.run.connector = IF r.connector THEN TRUE ELSE outcome \in {"ok", "none"},
                  !.run.anchor = IF r.connector /\ r.anchor THEN TRUE
                                 ELSE outcome = "ok",
                  !.run.pc = IF escapes THEN "dead" ELSE IF begun THEN "cycle" ELSE "top",
                  !.run.raised = IF escapes THEN outcome ELSE @,
                  !.run.cycles = IF begun THEN @ + 1 ELSE @,
                  !.run.after_stop = IF begun /\ r.stop THEN @ + 1 ELSE @]
    /\ UNCHANGED <<execVars, schedVars, riskVars, engVars, notifier, pure>>

\* self._run_cycle(...) returns: what is raised inside it is caught there.
RunCycle ==
    /\ shared.run.process = "running"
    /\ shared.run.pc = "cycle"
    /\ shared' = [shared EXCEPT !.run.pc = "top"]
    /\ UNCHANGED <<execVars, schedVars, riskVars, engVars, notifier, pure>>

\* After the loop: connector.shutdown() if there is a connector, and
\* db.close_thread_connection() in the finally clause.
LeaveLoop ==
    /\ shared.run.process = "running"
    /\ shared.run.pc = "stopping"
    /\ shared' = [shared EXCEPT
                     !.run.shutdowns = IF shared.run.connector THEN @ + 1 ELSE @,
                     !.run.handle = "closed",
                     !.run.pc = "stopped"]
    /\ UNCHANGED <<execVars, schedVars, riskVars, engVars, notifier, pure>>

(***************************************************************************)
(* Specification SpecStop: the engine started without UI or by the app,    *)
(* stopped by a signal, by the app or by a quit command, while every       *)
(* broker and persistence call returns.  The engine thread keeps running   *)
(* as long as the process does.                                            *)
(***************************************************************************)
InitStop ==
    /\ IdleExec(DefaultConfig) /\ IdleSched /\ IdleRisk /\ IdleEngine
    /\ notifier = Notifier0 /\ pure = NoPure
    /\ \E ui \in {"headless", "running"} :
         shared = [Shared0 EXCEPT !.run.ui = ui]

StopProcessCommands == ProcessCommands({})

StopLoopBody == LoopBody({})

EngineThread == LoopTest \/ StopProcessCommands \/ StopLoopBody \/ RunCycle \/ LeaveLoop

NextStop == RequestStop \/ QuitApp \/ Enqueue \/ MainReturns \/ EngineThread

SpecStop == InitStop /\ [][NextStop]_vars /\ WF_vars(EngineThread)

\* C36: once stop is requested the engine begins at most one further cycle,
\* and it then leaves its loop, having called the connector's shutdown once
\* if there is a connector and closed its thread's database connection.
C36_StopEndsEngine ==
    /\ [](shared.run.after_stop <= 1)
    /\ [](shared.run.pc = "stopped" =>
            /\ shared.run.handle = "closed"
            /\ shared.run.shutdowns = IF shared.run.connector THEN 1 ELSE 0)
    /\ (shared.run.stop ~> shared.run.pc = "stopped")

(***************************************************************************)
(* Specification SpecLoop: the engine thread's loop with a broker adapter  *)
(* that may raise at the scheduler's poll, at a universe refresh and       *)
(* inside a cycle (mt5_connector._call raises RetryableBrokerError or      *)
(* BrokerDisconnectedError).                                               *)
(***************************************************************************)
RaisingCalls == {"poll", "refresh_universe", "refresh_universe command"}

InitLoop ==
    /\ IdleExec(DefaultConfig) /\ IdleSched /\ IdleRisk /\ IdleEngine
    /\ notifier = Notifier0 /\ pure = NoPure
    /\ shared = [Shared0 EXCEPT !.run.ui = "running"]

LoopProcessCommands == ProcessCommands(RaisingCalls)

LoopLoopBody == LoopBody(RaisingCalls)

NextLoop ==
    \/ RequestStop \/ Enqueue \/ LoopTest \/ LoopProcessCommands
    \/ LoopLoopBody \/ RunCycle \/ LeaveLoop

SpecLoop == InitLoop /\ [][NextLoop]_vars

\* C37: the engine thread is outside its loop only when stop has been
\* requested: no exception of the broker adapter ends the thread.
C37_LoopEndsOnlyOnStop ==
    /\ shared.run.pc # "dead"
    /\ shared.run.pc \in {"stopping", "stopped"} => shared.run.stop

(***************************************************************************)
(* engine/bot_engine.py BotEngine.commands, enqueue, _process_commands;    *)
(* engine/state.py CommandQueue: the UI thread and the engine thread go    *)
(* through the commands property step by step, with no lock.               *)
(***************************************************************************)
CommandThreads == {"ui", "engine"}

\* `if not hasattr(self, "_commands")`, entered by enqueue on the UI thread
\* and by _process_commands on the engine thread.
CommandsHasattr(t) ==
    /\ shared.commands[t].pc = "idle"
    /\ t = "ui" => shared.commands.enqueued < MaxCalls
    /\ shared' = [shared EXCEPT
          !.commands[t].pc = IF shared.commands.attr = 0 THEN "create" ELSE "return",
          !.commands.enqueued = IF t = "ui" THEN @ + 1 ELSE @]
    /\ UNCHANGED <<execVars, schedVars, riskVars, engVars, notifier, pure>>

\* `self._commands = CommandQueue()`
CommandsCreate(t) ==
    /\ shared.commands[t].pc = "create"
    /\ shared' = [shared EXCEPT
          !.commands.queues = Append(@, <<>>),
          !.commands.attr = Len(shared.commands.queues) + 1,
          !.commands[t].pc = "return"]
    /\ UNCHANGED <<execVars, schedVars, riskVars, engVars, notifier, pure>>

\* `return self._commands`
CommandsReturn(t) ==
    /\ shared.commands[t].pc = "return"
    /\ shared' = [shared EXCEPT
          !.commands[t].pc = "use",
          !.commands[t].q = shared.commands.attr]
    /\ UNCHANGED <<execVars, schedVars, riskVars, engVars, notifier, pure>>

\* CommandQueue.put on the queue the property returned to enqueue.
CommandsPut ==
    /\ shared.commands.ui.pc = "use"
    /\ shared' = [shared EXCEPT
          !.commands.queues[shared.commands.ui.q] = Append(@, shared.commands.put + 1),
          !.commands.put = @ + 1,
          !.commands.ui.pc = "idle"]
    /\ UNCHANGED <<execVars, schedVars, riskVars, engVars, notifier, pure>>

\* CommandQueue.get_nowait on the queue the property returned to
\* _process_commands: None ends the drain, a command is handled and the
\* property is read again.
CommandsGetNowait ==
    /\ shared.commands.engine.pc = "use"
    /\ LET q == shared.commands.queues[shared.commands.engine.q]
       IN  shared' = [shared EXCEPT
              !.commands.queues[shared.commands.engine.q] =
                  IF q = <<>> THEN @ ELSE Tail(@),
              !.commands.drained = IF q = <<>> THEN @ ELSE @ \cup {Head(q)},
              !.commands.engine.pc = "idle"]
    /\ UNCHANGED <<execVars, schedVars, riskVars, engVars, notifier, pure>>

InitQueue ==
    /\ IdleExec(DefaultConfig) /\ IdleSched /\ IdleRisk /\ IdleEngine
    /\ notifier = Notifier0 /\ pure = NoPure
    /\ shared = Shared0

CommandsProperty(t) == CommandsHasattr(t) \/ CommandsCreate(t) \/ CommandsReturn(t)

UiThread == CommandsProperty("ui") \/ CommandsPut

DrainThread == CommandsProperty("engine") \/ CommandsGetNowait

NextQueue == UiThread \/ DrainThread

\* Both threads keep running.
SpecQueue == InitQueue /\ [][NextQueue]_vars /\ WF_vars(UiThread) /\ WF_vars(DrainThread)

\* C38: every command that enqueue has put is eventually returned to the
\* engine's drain.
C38_NoCommandLost ==
    \A c \in 1..MaxCalls :
        (shared.commands.put >= c) ~> (c \in shared.commands.drained)

(***************************************************************************)
(* Specification SpecPause: pause and resume commands between cycles in    *)
(* which the account's equity is not reported, stays near the day's start  *)
(* or falls below the daily loss limit, so that the risk manager pauses.   *)
(***************************************************************************)
PauseCycleStart == CycleStartOn({NoneInt, 94, 98, 100}, BOOLEAN, {<<>>})

PauseSyncDeals == SyncDealsOn({<<>>}, {TRUE})

NextPause == Command \/ PauseCycleStart \/ PauseSyncDeals

SpecPause == InitEngine /\ [][NextPause]_vars

\* C39: between cycles, once a cycle has completed, the snapshot's paused
\* field equals _manual_paused or the risk manager's paused.
C39_SnapshotPausedIsEither ==
    (eng.pc = "idle" /\ shared.snapshot.last_cycle_id > 0)
        => shared.snapshot.paused = (eng.manual_paused \/ risk.paused)

(***************************************************************************)
(* Specification SpecSignal: generate_signal of each registered strategy   *)
(* on the context _process_top_symbols builds, for feature vectors over    *)
(* every sign of the crossover and of the slope and every RSI zone, and    *)
(* for the position lists the terminal may return for the symbol.          *)
(***************************************************************************)
SignalFeatures ==
    {Features(adx14, tp_cross, ema50_slope, rsi14) :
        adx14 \in {15, 25}, tp_cross \in {NoFeature, 0 - 1, 0, 1},
        ema50_slope \in {NoFeature, 0 - 1, 0, 1},
        rsi14 \in {NoFeature, 25, 30, 50, 70, 75}}

\* positions_get: positions of the bot, of another expert and without a
\* magic number, on the symbol and on another one.
SignalPositions ==
    {Position(1, "EURUSD", LONG, BotMagic), Position(1, "EURUSD", SHORT, BotMagic),
     Position(2, "EURUSD", SHORT, NoneInt), Position(2, "EURUSD", LONG, ForeignMagic),
     Position(3, "GBPUSD", LONG, BotMagic)}

SignalViews ==
    {view \in SUBSET SignalPositions :
        \A p, q \in view : p.position_id = q.position_id => p = q}

InitSignal ==
    /\ IdleExec(DefaultConfig) /\ IdleSched /\ IdleRisk /\ IdleEngine
    /\ shared = Shared0 /\ notifier = Notifier0
    /\ \E name \in StrategyNames, f \in SignalFeatures, view \in SignalViews :
         pure = [fn |-> "generate_signal", name |-> name, features |-> f,
                 view |-> view, symbol |-> "EURUSD", result |-> <<>>]

\* ctx.current_position = pos_by_symbol.get(sym), then
\* selection.strategy.generate_signal(...).
GenerateSignal ==
    /\ pure.fn = "generate_signal" /\ pure.result = <<>>
    /\ pure' = [pure EXCEPT !.result =
                  <<[current_position |->
                         pos_by_symbol(pure.view, DefaultConfig.magic_number,
                                       pure.symbol),
                     signal |->
                         generate_signal(pure.name, pure.features,
                                         pos_by_symbol(pure.view,
                                                       DefaultConfig.magic_number,
                                                       pure.symbol))]>>]
    /\ UNCHANGED <<execVars, schedVars, riskVars, engVars, shared, notifier>>

SpecSignal == InitSignal /\ [][GenerateSignal]_vars

\* The bot's positions on the symbol in the list the context was built from.
SignalBotHeld ==
    {p \in pure.view : p.symbol = pure.symbol /\ p.magic = DefaultConfig.magic_number}

\* C40: with a position in the context the strategy returns FLAT, with or
\* without the exit tag; the context holds a position whenever the bot holds
\* one on the symbol, so LONG or SHORT is returned only when it holds none.
C40_InPositionFlat ==
    (pure.fn = "generate_signal" /\ pure.result # <<>>) =>
        LET r == pure.result[1]
        IN  /\ r.current_position # NoPosition => r.signal.side = FLAT
            /\ SignalBotHeld # {} => r.current_position # NoPosition
            /\ r.signal.side \in {LONG, SHORT} => SignalBotHeld = {}

\* A bullish crossover in a rising trend while the bot is long on the symbol:
\* two_pole_momentum returns FLAT without the exit tag.
C40_Witness ==
    /\ pure.fn = "generate_signal" /\ pure.result # <<>>
    /\ pure.name = "two_pole_momentum"
    /\ pure.features.tp_cross = 1 /\ pure.features.ema50_slope = 1
    /\ SignalBotHeld # {}
    /\ pure.result[1].signal = Signal(FLAT, FALSE)

\* An oversold RSI while the bot is short on the symbol: range_mean_reversion
\* returns FLAT with the exit tag.
C40_WitnessExit ==
    /\ pure.fn = "generate_signal" /\ pure.result # <<>>
    /\ pure.name = "range_mean_reversion"
    /\ pure.features.rsi14 = 25
    /\ \E p \in SignalBotHeld : p.side = SHORT
    /\ pure.result[1].signal = Signal(FLAT, TRUE)

\* Without a position, the same vectors give an entry.
C40_WitnessEntry ==
    /\ pure.fn = "generate_signal" /\ pure.result # <<>>
    /\ pure.result[1].current_position = NoPosition
    /\ pure.result[1].signal.side \in {LONG, SHORT}

====
